---- MODULE Spec2Model ----
(***************************************************************************)
(* Model of distributed/lock.py: the scheduler-side LockExtension (holder  *)
(* map `ids`, per-name deques of tornado Events `events`) and the client   *)
(* handle Lock (`_locked`).                                                *)
(*                                                                         *)
(* The scheduler runs on one event loop, so every handler is atomic up to  *)
(* its next `await`.  LockExtension.acquire has one suspension point, the  *)
(* `await future` of line 52, and is therefore split in two actions: the   *)
(* part up to the first await (inside ClientAcquire) and the part from an  *)
(* await to the next await or the return (Resume).  The loop callbacks     *)
(* that resolve the awaited future are actions of their own: SetEvent is   *)
(* the `Event.set` that release hands to loop.add_callback, Timer is the   *)
(* deadline of gen.with_timeout.                                           *)
(*                                                                         *)
(* A client call is synchronous (client.sync): a handle has at most one    *)
(* call outstanding, and the reply of a call only touches the handle's own *)
(* `_locked` flag, so the reply is folded into the scheduler step that     *)
(* produces it.                                                            *)
(***************************************************************************)
EXTENDS Integers, Sequences, FiniteSets, TLC

NumHandles == 4     \* number of Lock handles
MaxReqs == 4        \* number of lock_acquire requests sent to the scheduler

Names == {"a", "b"}
Handles == 1..NumHandles                \* Lock.id of the handles
Timeouts == {"None", "zero", "pos"}   \* timeout=None, timeout=0, timeout>0

\* Lock.name of a handle, fixed by the constructor (lines 96-98)
HandleName(h) == IF h % 4 = 0 THEN "b" ELSE "a"

VARIABLES
    ids,        \* LockExtension.ids: name -> holder id (a partial map)
    events,     \* LockExtension.events: name -> deque of Event tokens
    callbacks,  \* Events whose `set` is queued on the loop by add_callback
    locked,     \* Lock._locked of every handle
    call,       \* the lock_acquire request of every handle, if one is waiting
    order,      \* the handles with a waiting request, in order of arrival
    nreq,       \* number of lock_acquire requests sent so far
    owns,       \* handles whose acquire was answered True and not yet released
    op          \* the step taken last (what was called, what it returned)

lvars == <<ids, events, callbacks, locked, call, order, nreq, owns, op>>

----------------------------------------------------------------------------
(* dict / defaultdict(deque) helpers *)

EmptyMap == [x \in {} |-> 0]

Put(m, k, v) == [x \in DOMAIN m \cup {k} |-> IF x = k THEN v ELSE m[x]]

Del(m, k) == [x \in DOMAIN m \ {k} |-> m[x]]

\* self.events[name] of a defaultdict(deque): a missing key reads as empty
Queue(ev, n) == IF n \in DOMAIN ev THEN ev[n] ELSE <<>>

\* a lock extension that keeps one lock for all names
IsHeldAnyName(h, n) == DOMAIN h # {}

\* `name not in self.ids`  (line 42), negated
IsHeld(h, n) == n \in DOMAIN h

\* a woken request that takes the lock without looking at the holder map
WaitAgainNever(h, n) == FALSE

\* `while name in self.ids`  (line 45), evaluated by a request that was woken
WaitAgain(h, n) == n \in DOMAIN h

\* deque.popleft()  (line 59)
PopLeft(q) == Tail(q)

\* a release that only checks that the name is held, not by whom
ReleaseRejectedUnheldOnly(h, n, id) == n \notin DOMAIN h

\* `self.ids.get(name) != id`  (line 70); ids are uuid strings, never None
ReleaseRejected(h, n, id) == ~(n \in DOMAIN h /\ h[n] = id)

\* a release that keeps the empty deque of the name
DiscardQueueNever(ev, n) == ev

\* `del self.events[name]`  (line 76)
DiscardQueue(ev, n) == Del(ev, n)

\* a Lock.acquire that accepts a timeout on a non-blocking call
ClientArgErrorNever(blocking, timeout) == FALSE

\* Lock.acquire, lines 123-125
ClientArgError(blocking, timeout) == (~blocking) /\ timeout # "None"

\* Lock.acquire, line 126
ClientTimeout(blocking, timeout) == IF ~blocking THEN "zero" ELSE timeout

\* Lock.acquire, line 134: executed whenever client.sync returned
LockedAfterAcquire(result, old) == TRUE

\* a Lock.release that clears the flag before it knows the outcome
LockedAfterReleaseAlways(ok, old) == FALSE

\* Lock.release, line 144: executed only if client.sync did not raise
LockedAfterRelease(ok, old) == IF ok THEN FALSE ELSE old

----------------------------------------------------------------------------
Idle == [pc |-> "idle", timeout |-> "None", fut |-> "none"]

Busy(h) == call[h].pc = "waiting"

\* A zero deadline is due on the loop iteration after the one that set it,
\* before the result of any later Event.set can be delivered.
Waiting(t) ==
    [pc |-> "waiting", timeout |-> t,
     fut |-> IF t = "zero" THEN "timeout" ELSE "pending"]

RECURSIVE Without(_, _)
Without(s, x) ==
    IF s = <<>> THEN <<>>
    ELSE IF Head(s) = x THEN Without(Tail(s), x)
    ELSE <<Head(s)>> \o Without(Tail(s), x)

(* Events are objects, compared by identity (line 60) and referenced from  *)
(* the deques, from the request that waits on them and from queued         *)
(* callbacks.  A handle has at most one waiting request and a request      *)
(* waits on one Event at a time, so the Event a request waits on is named  *)
(* by the request's handle.  The Event of a request that has returned can  *)
(* remain in a deque; nothing waits on it any more and all such Events     *)
(* behave alike, they are named Stale.  A queued `set` of an Event that    *)
(* nothing waits on has no effect and is dropped.                          *)
Stale == 0

Retire(q, h) == [i \in 1..Len(q) |-> IF q[i] = h THEN Stale ELSE q[i]]

RetireAll(ev, h) == [n \in DOMAIN ev |-> Retire(ev[n], h)]

(* The step taken last: the operation, the handle it belongs to, the       *)
(* arguments of a Lock.acquire call, whether a request went to the         *)
(* scheduler and with which timeout, and what the operation returned or    *)
(* raised ("waiting": it is suspended at the await).                       *)
Op(kind, h, blocking, arg, sent, t, outcome) ==
    [kind |-> kind, h |-> h, name |-> HandleName(h), blocking |-> blocking,
     arg |-> arg, sent |-> sent, timeout |-> t, outcome |-> outcome]

----------------------------------------------------------------------------
(* distributed/utils_comm.py: gather_from_workers and scatter_to_workers.  *)
(* Each is a coroutine on the caller's event loop; it is atomic up to its  *)
(* awaits (line 74 in gather, line 135 in scatter).  The peers' answers    *)
(* are steps of the environment.                                           *)

NumKeys == 2        \* keys a gather can be asked for
NumAddrs == 2       \* worker addresses
NumCalls == 3       \* successive scatter_to_workers calls
MaxThreads == 2     \* largest thread count of a worker in nthreads
MaxItems == 3       \* largest number of items in one scatter call

Keys == 1..NumKeys
Addrs == 1..NumAddrs

(* How a peer answers get_data_from_worker: "good" always answers with     *)
(* every key it was asked for, "down" always raises a connectivity error   *)
(* (EnvironmentError), "flaky" answers with any part of the keys it was    *)
(* asked for, or raises a connectivity error, or raises another error.     *)
Behaviours == {"good", "down", "flaky"}

VARIABLES
    caller,          \* the caller's who_has dict (original_who_has, line 35)
    entry,           \* what the caller's dict held when gather was called
    who_has,         \* gather's own copy (line 36)
    bad_addresses,   \* line 33
    missing_workers, \* line 34
    results,         \* keys of the results dict (line 37)
    all_bad_keys,    \* line 38
    rev,             \* key -> address chosen in the current pass (line 42)
    fetch,           \* address -> state of its get_data_from_worker future
    rpcs,            \* open rpc handles of gather: <<pass, address>>
    npass,           \* number of passes started
    beh,             \* how every peer answers
    gpc,             \* where gather is: off, await (line 74), done, raised, spin
    gret             \* what gather returned or raised

gvars == <<caller, entry, who_has, bad_addresses, missing_workers, results,
           all_bad_keys, rev, fetch, rpcs, npass, beh, gpc, gret>>

VARIABLES
    counter,         \* _round_robin_counter[0] (line 108)
    sc,              \* the scatter_to_workers call in progress, or the last one
    ncalls           \* number of scatter_to_workers calls made

svars == <<counter, sc, ncalls>>

VARIABLES
    arg,             \* the structure unpack_remotedata is called with
    out,             \* the structure unpack_remotedata returned
    myset,           \* the set of WrappedKey objects it returned
    known,           \* the dict d that pack_data is called with
    packed,          \* what pack_data returned
    ppc,             \* off, called, unpacked, packed
    ford             \* the order in which a set of WrappedKey objects iterates

pvars == <<arg, out, myset, known, packed, ppc, ford>>

VARIABLES
    status,          \* the supervisor's lifecycle status
    pid,             \* pid of the current worker subprocess, 0 for None
    live,            \* pids of the worker subprocesses that are alive
    registered,      \* the current worker is registered with the scheduler
    worker_dir,      \* working directory of the current worker, 0 for None
    dirs,            \* the working directories that exist
    auto_restart,    \* the watcher restarts a subprocess that exits
    transition,      \* the lifecycle transition in flight, "none" if none
    term,            \* the subprocess was told to terminate
    kwait,           \* kill() calls waiting for the subprocess to exit
    nlaunch,         \* subprocesses launched so far
    sched,           \* the scheduler is reachable
    memory_limit,    \* a non-zero memory limit is configured
    crashed,         \* pid and directory of the subprocess that crashed last
    nerr             \* the error the last call raised to its caller

nvars == <<status, pid, live, registered, worker_dir, dirs, auto_restart,
           transition, term, kwait, nlaunch, sched, memory_limit, crashed,
           nerr>>

VARIABLES
    sec,             \* the Security object of the process
    scall,           \* the last call on it: <<method, role>>
    bundle,          \* the dict the last call returned
    serr             \* the error the last call raised

secvars == <<sec, scall, bundle, serr>>

VARIABLES
    flight           \* the scatter_to_workers calls in flight on one loop

VARIABLES
    listeners,       \* per transport, the arguments of its listener or NoArgs
    attempt          \* the last listen or connect and how it ended

tvars == <<listeners, attempt>>

vars == <<lvars, gvars, svars, pvars, nvars, secvars, tvars, flight>>

\* what the steps of one part leave alone
notLock == <<gvars, svars, pvars, nvars, secvars, tvars, flight>>

notGather == <<lvars, svars, pvars, nvars, secvars, tvars, flight>>

notScatter == <<lvars, gvars, pvars, nvars, secvars, tvars, flight>>

notPack == <<lvars, gvars, svars, nvars, secvars, tvars, flight>>

notNanny == <<lvars, gvars, svars, pvars, secvars, tvars, flight>>

notSecurity == <<lvars, gvars, svars, pvars, nvars, tvars, flight>>

notTransport == <<lvars, gvars, svars, pvars, nvars, secvars, flight>>

notFlight == <<lvars, gvars, sc, ncalls, pvars, nvars, secvars, tvars>>

NoRet == [results |-> {}, bad_keys |-> EmptyMap, missing |-> {}, err |-> "none"]

\* no gather call is made
GatherOff ==
    /\ caller = EmptyMap
    /\ entry = EmptyMap
    /\ who_has = EmptyMap
    /\ bad_addresses = {}
    /\ missing_workers = {}
    /\ results = {}
    /\ all_bad_keys = {}
    /\ rev = EmptyMap
    /\ fetch = EmptyMap
    /\ rpcs = {}
    /\ npass = 0
    /\ beh = [a \in Addrs |-> "good"]
    /\ gpc = "off"
    /\ gret = NoRet

\* pc: off, idle (no call yet), await (line 135), done, raised
NoCall ==
    [pc |-> "idle", nthreads |-> <<>>, n |-> 0, start |-> 0, L |-> <<>>,
     d |-> EmptyMap, upd |-> EmptyMap, rpcs |-> {}, err |-> "none",
     names |-> <<>>, who_has |-> EmptyMap]

\* no scatter call is made
ScatterOff ==
    /\ counter = 0
    /\ sc = [NoCall EXCEPT !.pc = "off"]
    /\ ncalls = 0

\* a literal scalar
Lit(v) == <<"lit", v>>

\* unpack_remotedata and pack_data are not called
PackOff ==
    /\ arg = Lit("a")
    /\ out = Lit("a")
    /\ myset = {}
    /\ known = EmptyMap
    /\ packed = Lit("a")
    /\ ppc = "off"
    /\ ford = <<>>

\* no supervisor is created
NannyOff ==
    /\ status = "off"
    /\ pid = 0
    /\ live = {}
    /\ registered = FALSE
    /\ worker_dir = 0
    /\ dirs = {}
    /\ auto_restart = FALSE
    /\ transition = "none"
    /\ term = FALSE
    /\ kwait = 0
    /\ nlaunch = 0
    /\ sched = FALSE
    /\ memory_limit = FALSE
    /\ crashed = [pid |-> 0, dir |-> 0]
    /\ nerr = "none"

\* a missing path or cipher list
None == "None"

Roles == {"scheduler", "worker", "client"}

\* no TLS context
NoContext == <<"None">>

NoBundle == [ssl_context |-> NoContext, require_encryption |-> FALSE]

\* no Security object is asked for anything
SecurityOff ==
    /\ sec = [require_encryption |-> FALSE, tls_ca_file |-> None,
              tls_ciphers |-> None, cert |-> [r \in Roles |-> None],
              key |-> [r \in Roles |-> None]]
    /\ scall = <<"none", "none">>
    /\ bundle = NoBundle
    /\ serr = "none"

Transports == {"tcp", "tls", "inproc"}

\* no connection arguments: nothing listens
NoArgs == [ssl_context |-> NoContext, require_encryption |-> FALSE,
           none |-> TRUE]

NoAttempt == [op |-> "none", transport |-> "none", args |-> NoArgs,
              result |-> "none"]

\* nothing listens and nothing connects
TransportOff ==
    /\ listeners = [t \in Transports |-> NoArgs]
    /\ attempt = NoAttempt

\* a scatter_to_workers call that is not made yet
NoFlight == [pc |-> "idle", n |-> 0, start |-> 0, err |-> "none"]

\* no concurrent scatter calls
FlightOff == flight = <<>>

\* the parts that take no step in a specification of another part
OthersOff ==
    PackOff /\ NannyOff /\ SecurityOff /\ TransportOff /\ FlightOff

\* LockExtension.__init__ and a fresh Lock object per handle
LockInit ==
    /\ ids = EmptyMap
    /\ events = EmptyMap
    /\ callbacks = {}
    /\ locked = [h \in Handles |-> FALSE]
    /\ call = [h \in Handles |-> Idle]
    /\ order = <<>>
    /\ owns = {}
    /\ nreq = 0
    /\ op = Op("init", 1, TRUE, "None", FALSE, "None", "none")

(* Lock.acquire (lines 123-135) and, for a request that is sent, the part  *)
(* of LockExtension.acquire up to its first await (lines 40-52) or, on a   *)
(* free name, up to its return (lines 42-43, 61-64).                       *)
ClientAcquire(h, blocking, timeout) ==
    /\ ~Busy(h)
    /\ IF ClientArgError(blocking, timeout)
       THEN /\ op' = Op("acquire", h, blocking, timeout, FALSE, "None", "ValueError")
            /\ UNCHANGED <<ids, events, callbacks, locked, call, order, nreq, owns>>
       ELSE LET t == ClientTimeout(blocking, timeout)
                n == HandleName(h)
            IN /\ nreq < MaxReqs
               /\ nreq' = nreq + 1
               /\ IF ~IsHeld(ids, n)
                  THEN /\ ids' = Put(ids, n, h)
                       /\ owns' = owns \cup {h}
                       /\ locked' = [locked EXCEPT
                                    ![h] = LockedAfterAcquire(TRUE, @)]
                       /\ op' = Op("acquire", h, blocking, timeout, TRUE, t, "true")
                       /\ UNCHANGED <<events, callbacks, call, order>>
                  ELSE /\ events' = Put(events, n, Append(Queue(events, n), h))
                       /\ call' = [call EXCEPT ![h] = Waiting(t)]
                       /\ order' = Append(order, h)
                       /\ op' = Op("acquire", h, blocking, timeout, TRUE, t, "waiting")
                       /\ UNCHANGED <<ids, callbacks, locked, owns>>

(* Event.set, run by the loop for a callback that release queued (line 74):*)
(* it resolves the future of the request waiting on that Event, if any.    *)
SetEvent(e) ==
    /\ e \in callbacks
    /\ callbacks' = callbacks \ {e}
    /\ call' = [h \in Handles |->
                IF h = e /\ Busy(h) /\ call[h].fut = "pending"
                THEN [call[h] EXCEPT !.fut = "set"] ELSE call[h]]
    /\ op' = Op("set", e, TRUE, "None", FALSE, "None", "none")
    /\ UNCHANGED <<ids, events, locked, order, nreq, owns>>

(* The deadline of gen.with_timeout (line 50).  The outer future gets the  *)
(* TimeoutError unless the result of the Event's future has already been   *)
(* copied to it; that copy is a loop callback of its own, so the deadline  *)
(* can still win after the Event was set.                                  *)
Timer(h) ==
    /\ Busy(h)
    /\ call[h].timeout # "None"
    /\ call[h].fut \in {"pending", "set"}
    /\ call' = [call EXCEPT ![h].fut = "timeout"]
    /\ op' = Op("timer", h, TRUE, "None", FALSE, call[h].timeout, "none")
    /\ UNCHANGED <<ids, events, callbacks, locked, order, nreq, owns>>

(* LockExtension.acquire from the await of line 52 to the next await or    *)
(* the return (lines 53-64, 45-52), and the reply to Lock.acquire (134).   *)
Resume(h) ==
    /\ Busy(h)
    /\ call[h].fut \in {"set", "timeout"}
    /\ LET n == HandleName(h)
           t == call[h].timeout
           q == Queue(events, n)
           done == [call EXCEPT ![h] = Idle]
           gone == Without(order, h)
       IN IF q = <<>>
          THEN \* popleft of an empty deque
               /\ events' = Put(events, n, <<>>)
               /\ call' = done
               /\ order' = gone
               /\ callbacks' = callbacks \ {h}
               /\ op' = Op("resume", h, TRUE, "None", FALSE, t, "IndexError")
               /\ UNCHANGED <<ids, locked, nreq, owns>>
          ELSE IF Head(q) # h
          THEN \* assert event is event2  (line 60)
               /\ events' = RetireAll(Put(events, n, PopLeft(q)), h)
               /\ call' = done
               /\ order' = gone
               /\ callbacks' = callbacks \ {h}
               /\ op' = Op("resume", h, TRUE, "None", FALSE, t, "AssertionError")
               /\ UNCHANGED <<ids, locked, nreq, owns>>
          ELSE IF call[h].fut = "timeout"
          THEN \* except gen.TimeoutError: result = False; break
               /\ events' = Put(events, n, PopLeft(q))
               /\ call' = done
               /\ order' = gone
               /\ callbacks' = callbacks \ {h}
               /\ locked' = [locked EXCEPT ![h] = LockedAfterAcquire(FALSE, @)]
               /\ op' = Op("resume", h, TRUE, "None", FALSE, t, "false")
               /\ UNCHANGED <<ids, nreq, owns>>
          ELSE IF WaitAgain(ids, n)
          THEN \* while name in self.ids: wait again on a new Event
               /\ events' = Put(events, n, Append(PopLeft(q), h))
               /\ op' = Op("resume", h, TRUE, "None", FALSE, t, "waiting")
               /\ call' = [call EXCEPT ![h].fut = "pending"]
               /\ callbacks' = callbacks \ {h}
               /\ UNCHANGED <<ids, locked, order, nreq, owns>>
          ELSE IF n \in DOMAIN ids
          THEN \* assert name not in self.ids  (line 62)
               /\ events' = Put(events, n, PopLeft(q))
               /\ call' = done
               /\ order' = gone
               /\ callbacks' = callbacks \ {h}
               /\ op' = Op("resume", h, TRUE, "None", FALSE, t, "AssertHeld")
               /\ UNCHANGED <<ids, locked, nreq, owns>>
          ELSE \* lines 61-64
               /\ events' = Put(events, n, PopLeft(q))
               /\ call' = done
               /\ order' = gone
               /\ callbacks' = callbacks \ {h}
               /\ ids' = Put(ids, n, h)
               /\ owns' = owns \cup {h}
               /\ locked' = [locked EXCEPT ![h] = LockedAfterAcquire(TRUE, @)]
               /\ op' = Op("resume", h, TRUE, "None", FALSE, t, "true")
               /\ UNCHANGED nreq

(* Lock.release (lines 137-145) and LockExtension.release (lines 66-76).   *)
ClientRelease(h) ==
    /\ ~Busy(h)
    /\ LET n == HandleName(h)
           q == Queue(events, n)
       IN IF ~locked[h]
          THEN /\ op' = Op("release", h, TRUE, "None", FALSE, "None", "ValueError")
               /\ UNCHANGED <<ids, events, callbacks, locked, call, order, nreq, owns>>
          ELSE IF ReleaseRejected(ids, n, h)
          THEN /\ op' = Op("release", h, TRUE, "None", TRUE, "None", "ValueError")
               /\ locked' = [locked EXCEPT ![h] = LockedAfterRelease(FALSE, @)]
               /\ UNCHANGED <<ids, events, callbacks, call, order, nreq, owns>>
          ELSE /\ ids' = Del(ids, n)
               /\ IF q # <<>>
                  THEN /\ callbacks' = callbacks \cup ({Head(q)} \ {Stale})
                       /\ events' = events
                  ELSE /\ events' = DiscardQueue(events, n)
                       /\ callbacks' = callbacks
               /\ locked' = [locked EXCEPT ![h] = LockedAfterRelease(TRUE, @)]
               /\ owns' = owns \ {x \in Handles : HandleName(x) = n}
               /\ op' = Op("release", h, TRUE, "None", TRUE, "None", "ok")
               /\ UNCHANGED <<call, order, nreq>>

Init ==
    /\ GatherOff
    /\ ScatterOff
    /\ OthersOff
    /\ LockInit

Next ==
    \/ \E h \in Handles, b \in BOOLEAN, t \in Timeouts :
            ClientAcquire(h, b, t) /\ UNCHANGED notLock
    \/ \E e \in callbacks : SetEvent(e) /\ UNCHANGED notLock
    \/ \E h \in Handles : Timer(h) /\ UNCHANGED notLock
    \/ \E h \in Handles : Resume(h) /\ UNCHANGED notLock
    \/ \E h \in Handles : ClientRelease(h) /\ UNCHANGED notLock

Spec == Init /\ [][Next]_vars

\* the holder of a name calls release
HolderReleases(h) ==
    /\ HandleName(h) \in DOMAIN ids
    /\ ids[HandleName(h)] = h
    /\ ClientRelease(h)

\* The loop runs every callback it was given and resumes every coroutine
\* whose future is resolved; a holder that can release does so.
FairLockSpec ==
    /\ Init
    /\ [][Next]_vars
    /\ WF_vars(\E e \in callbacks : SetEvent(e) /\ UNCHANGED notLock)
    /\ WF_vars(\E h \in Handles : Resume(h) /\ UNCHANGED notLock)
    /\ \A h \in Handles : WF_vars(HolderReleases(h) /\ UNCHANGED notLock)

----------------------------------------------------------------------------
(* gather_from_workers *)

Range(f) == {f[x] : x \in DOMAIN f}

\* line 36: who_has = {k: set(v) for k, v in who_has.items()}
CopyOf(m) == [k \in DOMAIN m |-> m[k]]

\* line 40: the loop condition
LoopTest(res, abk, wh) ==
    Cardinality(res) + Cardinality(abk) < Cardinality(DOMAIN wh)

\* line 48: the addresses a key can still be fetched from
UsableNone(wh, bad, k) == {}
UsableBadToo(wh, bad, k) == wh[k]
Usable(wh, bad, k) == wh[k] \ bad

\* lines 44-52: the keys of this pass for which random.choice raises
\* IndexError
BadKeys(wh, res, bad) == {k \in DOMAIN wh \ res : Usable(wh, bad, k) = {}}

\* lines 72-78: response.update(r["data"]) for every fetch that answered
ResponseNone(f) == {}
Response(f) == UNION {f[a].data : a \in {x \in DOMAIN f : f[x].kind = "ok"}}

\* line 75: the outcomes of `await c` after which the loop over the
\* coroutines goes on: an answer, and an EnvironmentError (caught)
AbsorbedOkOnly(kind) == kind = "ok"
Absorbed(kind) == kind \in {"ok", "env"}

\* lines 79-81: the finally block closes every handle of the pass
CloseNone(hs) == hs
CloseAll(hs) == {}

\* lines 75-76: missing_workers.add(worker) on EnvironmentError
MissingNone(f) == {}
MissingEveryAddress(f) == DOMAIN f
Missing(f) == {a \in DOMAIN f : f[a].kind = "env"}

\* line 83: the addresses chosen for a key that did not come back
NewBadNone(rv, resp) == {}
NewBadEveryAddress(rv, resp) == Range(rv)
NewBad(rv, resp) == {rv[k] : k \in DOMAIN rv \ resp}

\* line 86: {k: list(original_who_has[k]) for k in all_bad_keys}
BadKeysMap(abk, orig) == [k \in abk |-> orig[k]]

\* the keys asked of address a in this pass (d[addr], line 49)
Asked(rv, a) == {k \in DOMAIN rv : rv[k] = a}

\* position of address a among the keys of d (dicts keep insertion order;
\* who_has is iterated in key order)
First(rv, a) == CHOOSE k \in Asked(rv, a) : \A j \in Asked(rv, a) : k <= j

\* the pool of addresses gather can still choose from
Pool(wh, bad) == UNION {wh[k] : k \in DOMAIN wh} \ bad

\* lines 86-87; original_who_has is the caller's dict itself (line 35), read
\* here: a key no longer in it raises KeyError
Return(res, abk, miss, open) ==
    /\ all_bad_keys' = abk
    /\ rev' = EmptyMap
    /\ fetch' = EmptyMap
    /\ rpcs' = open
    /\ npass' = npass
    /\ IF abk \subseteq DOMAIN caller
       THEN /\ gpc' = "done"
            /\ gret' = [results |-> res, bad_keys |-> BadKeysMap(abk, caller),
                        missing |-> miss, err |-> "none"]
       ELSE /\ gpc' = "raised"
            /\ gret' = [NoRet EXCEPT !.err = "KeyError"]

\* lines 40-70: from the loop condition to the first await of a pass, or to
\* the return.  A pass that asks no address has nothing to await and runs
\* through to the next loop condition.
Advance(wh, res, abk, bad, miss, open) ==
    /\ who_has' = wh
    /\ results' = res
    /\ bad_addresses' = bad
    /\ missing_workers' = miss
    /\ IF ~LoopTest(res, abk, wh)
       THEN Return(res, abk, miss, open)
       ELSE LET bk == BadKeys(wh, res, bad)
                asked == (DOMAIN wh \ res) \ bk
                abk2 == abk \cup bk
            IN  IF asked = {}
                THEN IF LoopTest(res, abk2, wh)
                     THEN /\ gpc' = "spin"
                          /\ all_bad_keys' = abk2
                          /\ rpcs' = open
                          /\ UNCHANGED <<rev, fetch, npass, gret>>
                     ELSE Return(res, abk2, miss, open)
                ELSE \E r \in [asked -> Addrs] :
                        /\ \A k \in asked : r[k] \in Usable(wh, bad, k)
                        /\ rev' = r
                        /\ fetch' = [a \in Range(r) |->
                                        [kind |-> "pending", data |-> {}]]
                        /\ rpcs' = open \cup
                                     {<<npass + 1, a>> : a \in Range(r)}
                        /\ npass' = npass + 1
                        /\ all_bad_keys' = abk2
                        /\ gpc' = "await"
                        /\ UNCHANGED gret

\* lines 33-38 and the first pass up to its await
Begin ==
    /\ gpc = "called"
    /\ entry' = caller
    /\ Advance(CopyOf(caller), {}, {}, {}, {}, {})
    /\ UNCHANGED <<caller, beh>>

\* the peer at address a answers get_data_from_worker (or the connection
\* to it fails)
Respond(a) ==
    /\ gpc = "await"
    /\ a \in DOMAIN fetch
    /\ fetch[a].kind = "pending"
    /\ \E kind \in {"ok", "env", "exc"}, data \in SUBSET Asked(rev, a) :
          /\ beh[a] = "good" => (kind = "ok" /\ data = Asked(rev, a))
          /\ beh[a] = "down" => kind = "env"
          /\ kind # "ok" => data = {}
          /\ fetch' = [fetch EXCEPT ![a] = [kind |-> kind, data |-> data]]
    /\ UNCHANGED <<caller, entry, who_has, bad_addresses, missing_workers,
                   results, all_bad_keys, rev, rpcs, npass, beh, gpc, gret>>

\* lines 72-84, then the next loop condition: every future was awaited
Collect ==
    /\ gpc = "await"
    /\ \A a \in DOMAIN fetch : Absorbed(fetch[a].kind)
    /\ Advance(who_has,
               results \cup Response(fetch),
               all_bad_keys,
               bad_addresses \cup NewBad(rev, Response(fetch)),
               missing_workers \cup Missing(fetch),
               CloseAll(rpcs))
    /\ UNCHANGED <<caller, entry, beh>>

\* line 74 raises an exception that is not an EnvironmentError: the finally
\* block (lines 79-81) closes the handles and the exception leaves gather
Fail(a) ==
    /\ gpc = "await"
    /\ a \in DOMAIN fetch
    /\ fetch[a].kind # "pending"
    /\ ~Absorbed(fetch[a].kind)
    /\ \A b \in DOMAIN fetch :
          First(rev, b) < First(rev, a) => Absorbed(fetch[b].kind)
    /\ rpcs' = CloseAll(rpcs)
    /\ gpc' = "raised"
    /\ gret' = [NoRet EXCEPT !.err = fetch[a].kind]
    /\ missing_workers' = missing_workers \cup
          {b \in Missing(fetch) : First(rev, b) < First(rev, a)}
    /\ UNCHANGED <<caller, entry, who_has, bad_addresses, results,
                   all_bad_keys, rev, fetch, npass, beh>>

\* another task on the loop changes the caller's dict while gather is
\* suspended at line 74
Mutate ==
    /\ gpc = "await"
    /\ \E k \in DOMAIN caller :
          \/ caller' = Del(caller, k)
          \/ \E s \in SUBSET Addrs : s # caller[k] /\ caller' = Put(caller, k, s)
    /\ UNCHANGED <<entry, who_has, bad_addresses, missing_workers, results,
                   all_bad_keys, rev, fetch, rpcs, npass, beh, gpc, gret>>

\* a call gather_from_workers(who_has, rpc) is made and not yet started
GatherInit ==
    /\ \E K \in SUBSET Keys : caller \in [K -> SUBSET Addrs]
    /\ entry = EmptyMap
    /\ who_has = EmptyMap
    /\ bad_addresses = {}
    /\ missing_workers = {}
    /\ results = {}
    /\ all_bad_keys = {}
    /\ rev = EmptyMap
    /\ fetch = EmptyMap
    /\ rpcs = {}
    /\ npass = 0
    /\ beh \in [Addrs -> Behaviours]
    /\ gpc = "called"
    /\ gret = NoRet

GatherStep ==
    \/ Begin /\ UNCHANGED notGather
    \/ \E a \in Addrs : Respond(a) /\ UNCHANGED notGather
    \/ Collect /\ UNCHANGED notGather
    \/ \E a \in Addrs : Fail(a) /\ UNCHANGED notGather

----------------------------------------------------------------------------
(* scatter_to_workers *)

\* [w] * nc (line 123)
RepeatAtLeastOnce(w, nc) == [i \in 1..(IF nc = 0 THEN 1 ELSE nc) |-> w]
Repeat(w, nc) == [i \in 1..nc |-> w]

\* line 123: list(concat([w] * nc for w, nc in nthreads.items())), for the
\* first w workers of nthreads
RECURSIVE WorkersUpTo(_, _)
WorkersUpTo(nthreads, w) ==
    IF w = 0 THEN <<>>
    ELSE WorkersUpTo(nthreads, w - 1) \o Repeat(w, nthreads[w])

Workers(nthreads) == WorkersUpTo(nthreads, Len(nthreads))

\* line 126: the number of elements dropped from cycle(workers)
OffsetZero(c, W) == 0
Offset(c, W) == c % W

\* element j (from 0) of cycle(workers)
Cycle(workers, j) == workers[(j % Len(workers)) + 1]

\* lines 126, 129: zip(drop(off, cycle(workers)), names, data) for n items:
\* the worker of every item
Zip(workers, off, n) == [i \in 1..n |-> Cycle(workers, off + i - 1)]

\* line 124: the names of n items, in the order of the data dict
ItemNames(n) == [i \in 1..n |-> i]

\* lines 130-131: groupby(0, L), keeping the keys of every group: what is
\* sent to every destination
GroupByWorker(L, names) ==
    [w \in Range(L) |-> {names[i] : i \in {j \in 1..Len(L) : L[j] = w}}]

\* line 149: {k: [w for w, _, _ in v] for k, v in groupby(1, L).items()}
WhoHasFirstWorker(L, names) == [k \in Range(names) |-> <<L[1]>>]
WhoHas(L, names) ==
    [k \in Range(names) |->
        LET at == SelectSeq([i \in 1..Len(L) |-> i], LAMBDA i : names[i] = k)
        IN  [j \in 1..Len(at) |-> L[at[j]]]]

\* line 135: await All([...]) returns once every update_data answered and
\* raises the first error of an update_data
All(upd) ==
    IF \E w \in DOMAIN upd : upd[w] = "env" THEN "env"
    ELSE IF \A w \in DOMAIN upd : upd[w] = "ok" THEN "ok"
    ELSE "pending"

\* lines 120-135: a call scatter_to_workers(nthreads, data) with n items,
\* up to its await.  zip(*data.items()) of an empty dict cannot be unpacked
\* (line 124), and an nthreads without threads divides by zero (line 126).
ScatterCall(nthreads, n) ==
    /\ sc.pc \in {"idle", "done", "raised"}
    /\ ncalls < NumCalls
    /\ ncalls' = ncalls + 1
    /\ LET workers == Workers(nthreads)
           call0 == [NoCall EXCEPT !.nthreads = nthreads, !.n = n,
                                   !.start = counter]
       IN  IF n = 0
           THEN /\ sc' = [call0 EXCEPT !.pc = "raised", !.err = "ValueError"]
                /\ counter' = counter
           ELSE IF Len(workers) = 0
           THEN /\ sc' = [call0 EXCEPT !.pc = "raised",
                                       !.err = "ZeroDivisionError"]
                /\ counter' = counter
           ELSE LET L == Zip(workers, Offset(counter, Len(workers)), n)
                IN  /\ sc' = [call0 EXCEPT
                                !.pc = "await",
                                !.L = L,
                                !.d = GroupByWorker(L, ItemNames(n)),
                                !.upd = [w \in DOMAIN GroupByWorker(
                                             L, ItemNames(n)) |-> "pending"],
                                !.rpcs = DOMAIN GroupByWorker(
                                             L, ItemNames(n))]
                    /\ counter' = counter + n

\* the worker at address w answers update_data, or the connection fails
UpdateResponds(w, kind) ==
    /\ sc.pc = "await"
    /\ w \in DOMAIN sc.upd
    /\ sc.upd[w] = "pending"
    /\ sc' = [sc EXCEPT !.upd[w] = kind]
    /\ UNCHANGED <<counter, ncalls>>

\* lines 135-151: All returns or raises, the finally block closes the
\* handles, and the call returns or the error leaves it
ScatterResume ==
    /\ sc.pc = "await"
    /\ All(sc.upd) # "pending"
    /\ sc' = [sc EXCEPT
                !.pc = IF All(sc.upd) = "ok" THEN "done" ELSE "raised",
                !.err = IF All(sc.upd) = "ok" THEN "none" ELSE All(sc.upd),
                !.rpcs = CloseAll(sc.rpcs),
                !.names = IF All(sc.upd) = "ok"
                          THEN ItemNames(sc.n) ELSE <<>>,
                !.who_has = IF All(sc.upd) = "ok"
                            THEN WhoHas(sc.L, ItemNames(sc.n))
                            ELSE EmptyMap]
    /\ UNCHANGED <<counter, ncalls>>

ScatterInit ==
    /\ counter = 0
    /\ sc = NoCall
    /\ ncalls = 0

ScatterStep ==
    \/ \E nthreads \in [Addrs -> 0..MaxThreads], n \in 0..MaxItems :
            ScatterCall(nthreads, n) /\ UNCHANGED notScatter
    \/ \E w \in Addrs, kind \in {"ok", "env"} :
            UpdateResponds(w, kind) /\ UNCHANGED notScatter
    \/ ScatterResume /\ UNCHANGED notScatter

ScatterAlone == ScatterInit /\ GatherOff /\ OthersOff /\ LockInit

ScatterSpec == ScatterAlone /\ [][ScatterStep]_vars

(* Several scatter_to_workers calls on one loop.  A call runs from its    *)
(* entry to the await of line 135 without suspension; what it assigns and *)
(* sends is ScatterCall's, here only its use of the counter is kept.      *)
NumFlights == 2     \* scatter_to_workers calls that can be in flight

AdvancedByOne(c, n) == c + 1

\* line 127: _round_robin_counter[0] += len(data)
Advanced(c, n) == c + n

\* lines 120-135: call i up to its await
FlightCall(i, nthreads, n) ==
    /\ flight[i].pc = "idle"
    /\ IF n = 0
       THEN /\ flight' = [flight EXCEPT ![i] =
                    [NoFlight EXCEPT !.pc = "raised", !.err = "ValueError"]]
            /\ counter' = counter
       ELSE IF Len(Workers(nthreads)) = 0
       THEN /\ flight' = [flight EXCEPT ![i] =
                    [NoFlight EXCEPT !.pc = "raised",
                                     !.err = "ZeroDivisionError"]]
            /\ counter' = counter
       ELSE /\ flight' = [flight EXCEPT ![i] =
                    [pc |-> "await", n |-> n, start |-> counter,
                     err |-> "none"]]
            /\ counter' = Advanced(counter, n)

\* lines 135-151: All returns, or raises the error of an update_data
FlightEnds(i, kind) ==
    /\ flight[i].pc = "await"
    /\ flight' = [flight EXCEPT
                    ![i].pc = IF kind = "ok" THEN "done" ELSE "raised",
                    ![i].err = IF kind = "ok" THEN "none" ELSE kind]
    /\ counter' = counter

\* the counter as earlier calls left it, and no call made yet
FlightInit ==
    /\ counter \in 0..MaxItems
    /\ sc = [NoCall EXCEPT !.pc = "off"]
    /\ ncalls = 0
    /\ flight = [i \in 1..NumFlights |-> NoFlight]
    /\ GatherOff /\ PackOff /\ NannyOff /\ SecurityOff /\ TransportOff
    /\ LockInit

FlightStep ==
    \/ \E i \in 1..NumFlights, nthreads \in [Addrs -> 0..MaxThreads],
          n \in 0..MaxItems :
            FlightCall(i, nthreads, n) /\ UNCHANGED notFlight
    \/ \E i \in 1..NumFlights, kind \in {"ok", "env"} :
            FlightEnds(i, kind) /\ UNCHANGED notFlight

ConcurrentScatterSpec == FlightInit /\ [][FlightStep]_vars

\* gather_from_workers alone on the loop
GatherAlone == GatherInit /\ ScatterOff /\ OthersOff /\ LockInit

GatherSpec == GatherAlone /\ [][GatherStep]_vars

\* one of the two is called
CommInit == GatherAlone \/ ScatterAlone

CommNext == GatherStep \/ ScatterStep

CommSpec == CommInit /\ [][CommNext]_vars

\* gather_from_workers while other tasks on the loop change the caller's dict
SharedGatherNext ==
    \/ GatherStep
    \/ Mutate /\ UNCHANGED notGather

SharedGatherSpec == GatherAlone /\ [][SharedGatherNext]_vars

\* The loop runs a coroutine that is ready (Begin, Collect, Fail), and every
\* fetch eventually responds or raises (Respond).
FairGatherSpec == GatherAlone /\ [][GatherStep]_vars /\ WF_vars(GatherStep)

----------------------------------------------------------------------------
(* unpack_remotedata and pack_data *)

NumRefs == 2        \* WrappedKey objects
MaxDepth == 2       \* nesting depth of the structures

(* A structure is a pair <<type, payload>>: a literal scalar <<"lit", v>>, *)
(* a WrappedKey object <<"ref", i>> (i is its identity), a tuple or list   *)
(* with the sequence of its items, a set or frozenset with the set of its  *)
(* items, a dict with the set of its <<key, value>> pairs, a              *)
(* SubgraphCallable with its dsk (pairs <<key, value>>), outkey, inkeys    *)
(* and name.                                                               *)
Ref(i) == <<"ref", i>>

SubgraphCallable(dsk, outkey, inkeys, name) ==
    <<"SubgraphCallable",
      [dsk |-> dsk, outkey |-> outkey, inkeys |-> inkeys, name |-> name]>>

Tuple(items) == <<"tuple", items>>

List(items) == <<"list", items>>

Set(items) == <<"set", items>>

FrozenSet(items) == <<"frozenset", items>>

Dict(pairs) == <<"dict", pairs>>

\* o.key of a WrappedKey (line 100): two objects can have the same key
RefKey(i) == IF i % 2 = 1 THEN "x" ELSE "y"

\* line 153
collection_types == {"tuple", "list", "set", "frozenset"}

\* what Python can put in a set or use as a dict key
RECURSIVE Hashable(_)
Hashable(o) ==
    \/ o[1] \in {"lit", "ref", "frozenset"}
    \/ o[1] = "tuple" /\ \A i \in DOMAIN o[2] : Hashable(o[2][i])

Atoms == {Lit("a"), Lit("x")} \cup {Ref(i) : i \in 1..NumRefs}

Empties == {Tuple(<<>>), List(<<>>), Set({}), FrozenSet({}), Dict({})}

Siblings == {Lit("x"), Ref(2)}

\* the containers that hold o, alone or next to one sibling, in any position
Around(o) ==
    LET seqs == {<<o>>} \cup UNION {{<<o, y>>, <<y, o>>} : y \in Siblings}
        sets == {{o}} \cup {{o, y} : y \in Siblings}
        vals == {{<<Lit("a"), o>>}}
                  \cup {{<<Lit("a"), o>>, <<Lit("b"), y>>} : y \in Siblings}
    IN  {Tuple(q) : q \in seqs} \cup {List(q) : q \in seqs}
          \cup {Dict(m) : m \in vals}
          \cup (IF Hashable(o)
                THEN {Set(e) : e \in sets} \cup {FrozenSet(e) : e \in sets}
                       \cup {Dict({<<o, Lit("a")>>})}
                ELSE {})

\* the structures nested at most depth deep
RECURSIVE Structures(_)
Structures(depth) ==
    IF depth = 0 THEN Atoms \cup Empties
    ELSE LET inner == Structures(depth - 1)
         IN  inner \cup UNION {Around(o) : o \in inner}

\* line 233: myset.add(o)
FoundNone(o) == {}
Found(o) == {o}

FutureKeysNone(futures) == <<>>

\* lines 203-207: tuple(f.key for f in futures), in the set's order
FutureKeys(futures) ==
    LET at == SelectSeq(ford, LAMBDA i : Ref(i) \in futures)
    IN  [j \in 1..Len(at) |-> Lit(RefKey(at[j]))]

\* lines 157-236 with byte_keys=False: the structure returned and the
\* WrappedKey objects added to myset
RECURSIVE Unpack(_)
Unpack(o) ==
    LET typ == o[1]
    IN  IF typ = "tuple" /\ o[2] # <<>> /\ o[2][1][1] = "SubgraphCallable"
        THEN \* lines 194-215
             LET head == o[2][1][2]
                 rest == Tail(o[2])
                 futures ==
                     UNION ({Unpack(kv[2]).myset : kv \in head.dsk}
                            \cup {Unpack(rest[i]).myset : i \in DOMAIN rest})
                 dsk == {<<kv[1], Unpack(kv[2]).out>> : kv \in head.dsk}
                 args == [i \in DOMAIN rest |-> Unpack(rest[i]).out]
                 keys == FutureKeys(futures)
             IN  IF futures # {}
                 THEN [out |-> Tuple(<<SubgraphCallable(
                                          dsk, head.outkey,
                                          head.inkeys \o keys, head.name)>>
                                      \o args \o keys),
                       myset |-> futures]
                 ELSE [out |-> o, myset |-> {}]
        ELSE IF typ \in {"tuple", "list"}
        THEN IF o[2] = <<>> THEN [out |-> o, myset |-> {}]
             ELSE [out |-> <<typ, [i \in DOMAIN o[2] |-> Unpack(o[2][i]).out]>>,
                   myset |-> UNION {Unpack(o[2][i]).myset : i \in DOMAIN o[2]}]
        ELSE IF typ \in {"set", "frozenset"}
        THEN IF o[2] = {} THEN [out |-> o, myset |-> {}]
             ELSE [out |-> <<typ, {Unpack(item).out : item \in o[2]}>>,
                   myset |-> UNION {Unpack(item).myset : item \in o[2]}]
        ELSE IF typ = "dict"
        THEN IF o[2] # {}
             THEN [out |-> Dict({<<kv[1], Unpack(kv[2]).out>> : kv \in o[2]}),
                   myset |-> UNION {Unpack(kv[2]).myset : kv \in o[2]}]
             ELSE [out |-> o, myset |-> {}]
        ELSE IF typ = "ref"
        THEN [out |-> Lit(RefKey(o[2])), myset |-> Found(o)]
        ELSE [out |-> o, myset |-> {}]

\* lines 261-263: isinstance(o, key_types) and o in d, with key_types=object
InKnownNever(o, d) == FALSE
InKnown(o, d) == o \in DOMAIN d

\* line 268: typ([...])
RebuildAsList(typ, items) == <<"list", items>>
Rebuild(typ, items) == <<typ, items>>

\* lines 239-271
RECURSIVE Pack(_, _)
Pack(o, d) ==
    LET typ == o[1]
    IN  IF InKnown(o, d) THEN d[o]
        ELSE IF typ \in collection_types
        THEN IF typ \in {"tuple", "list"}
             THEN Rebuild(typ, [i \in DOMAIN o[2] |-> Pack(o[2][i], d)])
             ELSE Rebuild(typ, {Pack(x, d) : x \in o[2]})
        ELSE IF typ = "dict"
        THEN Dict({<<kv[1], Pack(kv[2], d)>> : kv \in o[2]})
        ELSE o

\* the value the key of a WrappedKey resolves to
Value(k) == IF k = "x" THEN Lit("vx") ELSE Lit("vy")

\* the dict that maps the key of every given WrappedKey to its value
Known(refs) == [k \in {Lit(RefKey(r[2])) : r \in refs} |-> Value(k[2])]

\* every WrappedKey object in o, dict keys included
RECURSIVE AllRefs(_)
AllRefs(o) ==
    IF o[1] = "ref" THEN {o}
    ELSE IF o[1] \in {"tuple", "list"}
    THEN UNION {AllRefs(o[2][i]) : i \in DOMAIN o[2]}
    ELSE IF o[1] \in {"set", "frozenset"}
    THEN UNION {AllRefs(x) : x \in o[2]}
    ELSE IF o[1] = "dict"
    THEN UNION {AllRefs(kv[1]) \cup AllRefs(kv[2]) : kv \in o[2]}
    ELSE {}

\* unpack_remotedata(arg) is called
UnpackCall ==
    /\ ppc = "called"
    /\ out' = Unpack(arg).out
    /\ myset' = Unpack(arg).myset
    /\ ppc' = "unpacked"
    /\ UNCHANGED <<arg, known, packed, ford>>

\* pack_data(out, d) is called with what unpack_remotedata returned
PackCall(d) ==
    /\ ppc = "unpacked"
    /\ known' = d
    /\ packed' = Pack(out, d)
    /\ ppc' = "packed"
    /\ UNCHANGED <<arg, out, myset, ford>>

PackInit ==
    /\ arg \in Structures(MaxDepth)
    /\ out = Lit("a")
    /\ myset = {}
    /\ known = EmptyMap
    /\ packed = Lit("a")
    /\ ppc = "called"
    /\ ford = [i \in 1..NumRefs |-> i]

PackAlone ==
    PackInit /\ GatherOff /\ ScatterOff /\ NannyOff /\ SecurityOff
    /\ TransportOff /\ FlightOff /\ LockInit

PackStep ==
    \/ UnpackCall /\ UNCHANGED notPack
    \/ \E d \in {EmptyMap, Known(AllRefs(arg))} : PackCall(d) /\ UNCHANGED notPack

PackSpec == PackAlone /\ [][PackStep]_vars

\* a callable without references in its subgraph, called with the items
InnerCall(items) ==
    Tuple(<<SubgraphCallable({<<"t", Lit("a")>>}, "t", <<>>, "inner")>>
            \o items)

\* the tuples headed by a SubgraphCallable: the subgraph has one value, or
\* one more next to it; the callable is called with no, one or two
\* arguments
SubgraphTuples ==
    LET values == Structures(MaxDepth - 1)
                    \cup {InnerCall(<<>>), InnerCall(<<Ref(1)>>)}
        more == {{}} \cup {{<<"t", y>>} : y \in Siblings}
        args == {<<>>, <<Lit("a"), Ref(2)>>}
                  \cup {<<a>> : a \in Atoms \cup {List(<<Ref(1)>>)}}
    IN  {Tuple(<<SubgraphCallable({<<"out", v>>} \cup m, "out",
                                  <<Lit("i")>>, "sub")>> \o a) :
            v \in values, m \in more, a \in args}

\* the orders a set of WrappedKey objects can iterate in
Orders ==
    {p \in [1..NumRefs -> 1..NumRefs] :
        \A i, j \in 1..NumRefs : p[i] = p[j] => i = j}

SubgraphInit ==
    /\ arg \in SubgraphTuples
    /\ out = Lit("a")
    /\ myset = {}
    /\ known = EmptyMap
    /\ packed = Lit("a")
    /\ ppc = "called"
    /\ ford \in Orders
    /\ GatherOff /\ ScatterOff /\ NannyOff /\ SecurityOff
    /\ TransportOff /\ FlightOff /\ LockInit

SubgraphSpec == SubgraphInit /\ [][PackStep]_vars

----------------------------------------------------------------------------
(* The worker supervisor (Nanny).  Its code is not among the sources: the  *)
(* model follows section 4.3 of the specification and the tests of         *)
(* tests/test_nanny.py.  A lifecycle transition runs from the call that    *)
(* begins it to the step that ends it; the subprocess starts, registers    *)
(* and exits in steps of its own.                                          *)

MaxLaunches == 3    \* subprocesses a supervisor launches
MaxKills == 2       \* kill() calls waiting at the same time

\* is_alive()
DeadAlways == TRUE
Dead == pid \notin live

\* the status between running and the launch of the next subprocess
RestartingSkipped == "starting"
Restarting == "restarting"

\* the watcher acts on the exit of the subprocess
WatchingNever == FALSE
Watching == auto_restart

\* a subprocess that exited is no longer registered with the scheduler
RegisteredKept == registered
RegisteredAfterExit == FALSE

\* what close raises to the caller of the transition it ends
RaisedAtCloseNone(tr) == "none"
RaisedAtClose(tr) == IF tr = "timeout" THEN "TimeoutError" ELSE "none"

\* a new subprocess with a new working directory
Launch ==
    /\ pid' = nlaunch + 1
    /\ live' = live \cup {nlaunch + 1}
    /\ worker_dir' = nlaunch + 1
    /\ dirs' = dirs \cup {nlaunch + 1}
    /\ nlaunch' = nlaunch + 1
    /\ registered' = FALSE
    /\ auto_restart' = TRUE

\* start(): init -> starting
StartCall ==
    /\ status = "init" /\ transition = "none"
    /\ nlaunch < MaxLaunches
    /\ status' = "starting"
    /\ transition' = "start"
    /\ Launch
    /\ UNCHANGED <<term, kwait, sched, memory_limit, crashed, nerr>>

\* the worker subprocess reaches the scheduler and registers
Register ==
    /\ status = "starting" /\ ~Dead /\ ~registered /\ sched /\ ~term
    /\ registered' = TRUE
    /\ UNCHANGED <<status, pid, live, worker_dir, dirs, auto_restart,
                   transition, term, kwait, nlaunch, sched, memory_limit,
                   crashed, nerr>>

\* the new worker is confirmed: starting -> running; the directory of the
\* subprocess it replaces is removed
Started ==
    /\ status = "starting" /\ ~Dead /\ registered
    /\ status' = "running"
    /\ transition' = "none"
    /\ dirs' = dirs \cap {worker_dir}
    /\ nerr' = "none"
    /\ UNCHANGED <<pid, live, registered, worker_dir, auto_restart, term,
                   kwait, nlaunch, sched, memory_limit, crashed>>

\* start() had no scheduler contact within death_timeout: the supervisor
\* closes (test_nanny_death_timeout)
DeathTimeout ==
    /\ status = "starting" /\ transition = "start" /\ ~registered
    /\ status' = "closing"
    /\ transition' = "timeout"
    /\ term' = TRUE
    /\ auto_restart' = FALSE
    /\ UNCHANGED <<pid, live, registered, worker_dir, dirs, kwait, nlaunch,
                   sched, memory_limit, crashed, nerr>>

\* the subprocess that was told to terminate exits; its working directory
\* is deleted
Exit ==
    /\ term /\ ~Dead
    /\ live' = live \ {pid}
    /\ registered' = RegisteredAfterExit
    /\ dirs' = dirs \ {worker_dir}
    /\ UNCHANGED <<status, pid, worker_dir, auto_restart, transition, term,
                   kwait, nlaunch, sched, memory_limit, crashed, nerr>>

\* the subprocess exits unexpectedly
Crash ==
    /\ ~term /\ pid \in live
    /\ nlaunch < MaxLaunches
    /\ live' = live \ {pid}
    /\ registered' = RegisteredAfterExit
    /\ crashed' = [pid |-> pid, dir |-> worker_dir]
    /\ UNCHANGED <<status, pid, worker_dir, dirs, auto_restart, transition,
                   term, kwait, nlaunch, sched, memory_limit, nerr>>

\* start(): the subprocess failed while starting and is launched again
Relaunch ==
    /\ status = "starting" /\ Dead /\ ~term
    /\ nlaunch < MaxLaunches
    /\ Launch
    /\ UNCHANGED <<status, transition, term, kwait, sched, memory_limit,
                   crashed, nerr>>

\* kill(): terminates the subprocess if it is alive, else does nothing
KillCall ==
    /\ status \in {"running", "closed"} /\ transition = "none"
    /\ auto_restart' = FALSE
    /\ nerr' = "none"
    /\ IF ~Dead
       THEN transition' = "kill" /\ term' = TRUE /\ kwait' = 1
       ELSE UNCHANGED <<transition, term, kwait>>
    /\ UNCHANGED <<status, pid, live, registered, worker_dir, dirs, nlaunch,
                   sched, memory_limit, crashed>>

\* kill() while a kill() is in flight: waits for the same exit
KillJoin ==
    /\ transition = "kill"
    /\ kwait < MaxKills
    /\ kwait' = kwait + 1
    /\ UNCHANGED <<status, pid, live, registered, worker_dir, dirs,
                   auto_restart, transition, term, nlaunch, sched,
                   memory_limit, crashed, nerr>>

\* the subprocess is gone: every waiting kill() returns
KillEnd ==
    /\ transition = "kill" /\ Dead
    /\ transition' = "none"
    /\ term' = FALSE
    /\ kwait' = 0
    /\ worker_dir' = 0
    /\ nerr' = "none"
    /\ UNCHANGED <<status, pid, live, registered, dirs, auto_restart,
                   nlaunch, sched, memory_limit, crashed>>

\* instantiate(): does nothing if the subprocess is alive, else
\* running -> restarting
InstantiateCall ==
    /\ status = "running" /\ transition = "none"
    /\ nlaunch < MaxLaunches
    /\ nerr' = "none"
    /\ IF ~Dead
       THEN UNCHANGED <<status, transition>>
       ELSE status' = Restarting /\ transition' = "instantiate"
    /\ UNCHANGED <<pid, live, registered, worker_dir, dirs, auto_restart,
                   term, kwait, nlaunch, sched, memory_limit, crashed>>

\* restart(), by a caller or by the memory monitor when the subprocess is
\* over the limit: running -> restarting, and the subprocess is killed
RestartCall(reason) ==
    /\ status = "running" /\ transition = "none"
    /\ nlaunch < MaxLaunches
    /\ reason = "memory" => (memory_limit /\ ~Dead)
    /\ status' = Restarting
    /\ transition' = "restart"
    /\ term' = ~Dead
    /\ auto_restart' = FALSE
    /\ nerr' = "none"
    /\ UNCHANGED <<pid, live, registered, worker_dir, dirs, kwait, nlaunch,
                   sched, memory_limit, crashed>>

\* the watcher sees that the subprocess exited while running:
\* running -> restarting
CrashDetected ==
    /\ status = "running" /\ transition = "none"
    /\ pid \notin live /\ Watching
    /\ status' = Restarting
    /\ transition' = "crash"
    /\ UNCHANGED <<pid, live, registered, worker_dir, dirs, auto_restart,
                   term, kwait, nlaunch, sched, memory_limit, crashed, nerr>>

\* restarting -> starting with a new subprocess, once the old one is gone
Respawn ==
    /\ status = "restarting" /\ Dead
    /\ nlaunch < MaxLaunches
    /\ status' = "starting"
    /\ term' = FALSE
    /\ Launch
    /\ UNCHANGED <<transition, kwait, sched, memory_limit, crashed, nerr>>

\* close(), by a caller or when the scheduler is gone
\* (test_close_on_disconnect): running -> closing; on a closed supervisor
\* it does nothing
CloseCall(reason) ==
    /\ status \in {"running", "closed"} /\ transition = "none"
    /\ reason = "disconnect" => (~sched /\ status = "running")
    /\ nerr' = "none"
    /\ IF status = "running"
       THEN /\ status' = "closing"
            /\ transition' = "close"
            /\ term' = ~Dead
            /\ auto_restart' = FALSE
       ELSE UNCHANGED <<status, transition, term, auto_restart>>
    /\ UNCHANGED <<pid, live, registered, worker_dir, dirs, kwait, nlaunch,
                   sched, memory_limit, crashed>>

\* closing -> closed once the subprocess is gone: the working directories
\* are removed
CloseEnd ==
    /\ status = "closing" /\ Dead
    /\ status' = "closed"
    /\ transition' = "none"
    /\ term' = FALSE
    /\ dirs' = {}
    /\ worker_dir' = 0
    /\ nerr' = RaisedAtClose(transition)
    /\ UNCHANGED <<pid, live, registered, auto_restart, kwait, nlaunch,
                   sched, memory_limit, crashed>>

\* the scheduler closes
SchedulerCloses ==
    /\ sched /\ status \notin {"off", "init"}
    /\ sched' = FALSE
    /\ registered' = FALSE
    /\ UNCHANGED <<status, pid, live, worker_dir, dirs, auto_restart,
                   transition, term, kwait, nlaunch, memory_limit, crashed,
                   nerr>>

\* Nanny(scheduler_address, ...): a supervisor that was not started yet
NannyInit ==
    /\ status = "init"
    /\ pid = 0
    /\ live = {}
    /\ registered = FALSE
    /\ worker_dir = 0
    /\ dirs = {}
    /\ auto_restart = TRUE
    /\ transition = "none"
    /\ term = FALSE
    /\ kwait = 0
    /\ nlaunch = 0
    /\ sched \in BOOLEAN
    /\ memory_limit \in BOOLEAN
    /\ crashed = [pid |-> 0, dir |-> 0]
    /\ nerr = "none"

NannyAlone ==
    NannyInit /\ GatherOff /\ ScatterOff /\ PackOff /\ SecurityOff
    /\ TransportOff /\ FlightOff /\ LockInit

\* what the supervisor does by itself and what happens to it
NannyOwnStep ==
    \/ StartCall /\ UNCHANGED notNanny
    \/ Register /\ UNCHANGED notNanny
    \/ Started /\ UNCHANGED notNanny
    \/ DeathTimeout /\ UNCHANGED notNanny
    \/ Exit /\ UNCHANGED notNanny
    \/ Crash /\ UNCHANGED notNanny
    \/ Relaunch /\ UNCHANGED notNanny
    \/ CrashDetected /\ UNCHANGED notNanny
    \/ Respawn /\ UNCHANGED notNanny
    \/ RestartCall("memory") /\ UNCHANGED notNanny
    \/ CloseCall("disconnect") /\ UNCHANGED notNanny
    \/ CloseEnd /\ UNCHANGED notNanny
    \/ SchedulerCloses /\ UNCHANGED notNanny

\* the calls of the supervisor's users
NannyCallStep ==
    \/ KillCall /\ UNCHANGED notNanny
    \/ KillJoin /\ UNCHANGED notNanny
    \/ KillEnd /\ UNCHANGED notNanny
    \/ InstantiateCall /\ UNCHANGED notNanny
    \/ RestartCall("caller") /\ UNCHANGED notNanny
    \/ CloseCall("caller") /\ UNCHANGED notNanny

NannyStep == NannyOwnStep \/ NannyCallStep

NannySpec == NannyAlone /\ [][NannyStep]_vars

\* the supervisor left to itself until it is closed
UnattendedStep ==
    \/ NannyOwnStep
    \/ CloseCall("caller") /\ UNCHANGED notNanny

\* The loop runs the supervisor's steps that are ready; a subprocess told
\* to terminate exits, and a worker that can reach the scheduler registers.
FairNannySpec ==
    /\ NannyAlone
    /\ [][UnattendedStep]_vars
    /\ WF_vars(Register /\ UNCHANGED notNanny)
    /\ WF_vars(Started /\ UNCHANGED notNanny)
    /\ WF_vars(Exit /\ UNCHANGED notNanny)
    /\ WF_vars(Relaunch /\ UNCHANGED notNanny)
    /\ WF_vars(CrashDetected /\ UNCHANGED notNanny)
    /\ WF_vars(Respawn /\ UNCHANGED notNanny)
    /\ WF_vars(CloseEnd /\ UNCHANGED notNanny)

----------------------------------------------------------------------------
(* Properties *)

\* x is before y in s
Earlier(s, x, y) == \E i, j \in 1..Len(s) : i < j /\ s[i] = x /\ s[j] = y

\* the step just taken is the return of a waiting request of h
Returns(h) == Busy(h) /\ op'.kind = "resume" /\ op'.h = h /\ op'.outcome # "waiting"

\* C1: every name has at most one holder: at most one handle per name was
\* answered True and has not released since, the holder map records exactly
\* that handle, and the assertion `name not in self.ids` before a grant
\* never fails.
MutualExclusion ==
    /\ \A n \in Names : Cardinality({h \in owns : HandleName(h) = n}) <= 1
    /\ \A n \in Names : n \in DOMAIN ids <=> \E h \in owns : HandleName(h) = n
    /\ \A n \in DOMAIN ids : ids[n] \in owns /\ HandleName(ids[n]) = n
    /\ op.outcome # "AssertHeld"

\* C1 witness: a request that waited was woken and recorded as holder while
\* another request still waits for the same name.
WokenWaiterGranted ==
    /\ op.kind = "resume" /\ op.outcome = "true"
    /\ op.name \in DOMAIN ids /\ ids[op.name] = op.h
    /\ \E h \in Handles \ {op.h} : Busy(h) /\ HandleName(h) = op.name

\* C2: waiters of a name are granted in arrival order: a waiting request is
\* never recorded as holder while a request for the same name that started
\* waiting before it, and has no timeout, still waits.
FifoGrantOrder ==
    [][\A h1, h2 \in Handles :
          ~ /\ Earlier(order, h1, h2)
            /\ HandleName(h1) = HandleName(h2)
            /\ call[h1].timeout = "None"
            /\ Returns(h2) /\ op'.outcome = "true"]_vars

\* C3: a request whose timeout elapsed returns False, whatever the position
\* of its Event in the deque, and is not recorded as holder.
TimeoutReturnsFalse ==
    [][\A h \in Handles :
          (Returns(h) /\ call[h].fut = "timeout")
              => (op'.outcome = "false" /\ ids' = ids)]_vars

\* C4: a request that times out removes exactly its own Event from the
\* deque of its name; the Events of the other waiters keep their order.
TimeoutRemovesOwnToken ==
    [][\A h \in Handles :
          (Returns(h) /\ call[h].fut = "timeout")
              => Queue(events', HandleName(h))
                   = Without(Queue(events, HandleName(h)), h)]_vars

\* C5: a lock_release for a name whose recorded holder is not the given id
\* (or that has no holder) raises ValueError, changes neither the holder map
\* nor any deque, and wakes no waiter.
ReleaseByNonHolderFails ==
    [][\A h \in Handles :
          (/\ op'.kind = "release" /\ op'.h = h /\ op'.sent
           /\ ~(HandleName(h) \in DOMAIN ids /\ ids[HandleName(h)] = h))
              => (/\ op'.outcome = "ValueError"
                  /\ UNCHANGED <<ids, events, callbacks, call, owns>>)]_vars

\* C5 witness: a release by a handle that is not the holder was rejected
\* while another handle holds the name and requests wait for it.
NonHolderReleaseRejected ==
    /\ op.kind = "release" /\ op.sent /\ op.outcome = "ValueError"
    /\ op.name \in DOMAIN ids /\ ids[op.name] # op.h
    /\ Queue(events, op.name) # <<>>

\* C6: a step for one name leaves the holder and the deque of every other
\* name as they were, and a request for a name without holder is granted at
\* once, whatever is held or queued under other names.
CrossNameIndependence ==
    [][\A n \in Names :
          /\ op'.name # n =>
                /\ (n \in DOMAIN ids') = (n \in DOMAIN ids)
                /\ n \in DOMAIN ids => ids'[n] = ids[n]
                /\ (n \in DOMAIN events') = (n \in DOMAIN events)
                /\ Queue(events', n) = Queue(events, n)
          /\ (op'.kind = "acquire" /\ op'.sent /\ op'.name = n
                  /\ n \notin DOMAIN ids)
                => (op'.outcome = "true" /\ n \in DOMAIN ids'
                        /\ ids'[n] = op'.h)]_vars

\* C6 witness: a request was granted at once while another name is held
\* and has waiters.
OtherNameGranted ==
    /\ op.kind = "acquire" /\ op.outcome = "true"
    /\ \E n \in Names \ {op.name} : n \in DOMAIN ids /\ Queue(events, n) # <<>>

\* C7: Lock.acquire marks the handle held on success only: a handle that
\* was not held is not held after an acquire that returned False.
LockedOnSuccessOnly ==
    [][\A h \in Handles :
          (/\ op'.kind \in {"acquire", "resume"} /\ op'.h = h
           /\ op'.outcome = "false" /\ ~locked[h])
              => ~locked'[h]]_vars

\* C8: Lock.acquire(blocking=False, timeout=t) raises ValueError, sends
\* nothing and changes nothing; Lock.acquire(blocking=False) sends a request
\* with timeout 0.
NonBlockingArguments ==
    [][(op'.kind = "acquire" /\ ~op'.blocking) =>
          IF op'.arg # "None"
          THEN /\ op'.outcome = "ValueError" /\ ~op'.sent
               /\ UNCHANGED <<ids, events, callbacks, locked, call, order,
                              nreq, owns>>
          ELSE /\ op'.sent /\ op'.timeout = "zero"
               /\ nreq' = nreq + 1]_vars

\* C8 witness: a non-blocking acquire with a timeout was rejected on a
\* handle whose name is held.
NonBlockingRejected ==
    /\ op.kind = "acquire" /\ ~op.blocking /\ op.arg = "pos"
    /\ op.outcome = "ValueError"
    /\ op.name \in DOMAIN ids

\* C9: Lock.release on a handle that is not held raises ValueError and
\* sends nothing; on a held handle it sends lock_release and the flag is
\* cleared exactly if the scheduler's release succeeded.
ReleaseLocalState ==
    [][\A h \in Handles :
          (op'.kind = "release" /\ op'.h = h) =>
              IF ~locked[h]
              THEN /\ op'.outcome = "ValueError" /\ ~op'.sent
                   /\ UNCHANGED <<ids, events, callbacks, locked, call, owns>>
              ELSE /\ op'.sent
                   /\ locked'[h] = (op'.outcome # "ok")
                   /\ \A x \in Handles \ {h} : locked'[x] = locked[x]]_vars

\* C9 witness: the scheduler rejected the release of a handle that is
\* locally held, and the handle is still held.
FailedReleaseKeepsFlag ==
    /\ op.kind = "release" /\ op.sent /\ op.outcome = "ValueError"
    /\ locked[op.h]

\* C10: a request with timeout 0 for a name without holder is granted at
\* once; for a held name it is never recorded as holder, returns False, and
\* leaves the holder and the order of the other waiters as they were.
NonBlockingAcquire ==
    [][\A h \in Handles :
          LET n == HandleName(h) IN
          /\ (op'.kind = "acquire" /\ op'.h = h /\ op'.sent
                  /\ op'.timeout = "zero") =>
                IF n \notin DOMAIN ids
                THEN op'.outcome = "true" /\ n \in DOMAIN ids' /\ ids'[n] = h
                ELSE /\ ids' = ids
                     /\ Queue(events', n) = Append(Queue(events, n), h)
          /\ (Returns(h) /\ op'.timeout = "zero") =>
                /\ op'.outcome = "false"
                /\ ids' = ids
                /\ Queue(events', n) = Without(Queue(events, n), h)]_vars

Woken(n) ==
    {h \in Handles : /\ HandleName(h) = n
                     /\ Busy(h)
                     /\ call[h].fut # "timeout"
                     /\ (h \in callbacks \/ call[h].fut = "set")}

\* C33: after a release has woken the head waiter of a name, the next
\* request recorded as holder of the name is that waiter.
WokenWaiterIsNextHolder ==
    [][\A n \in Names :
          (n \notin DOMAIN ids /\ Woken(n) # {} /\ n \in DOMAIN ids')
              => ids'[n] \in Woken(n)]_vars

\* C34: under fair scheduling a request that waits without a timeout is
\* eventually granted the lock, as long as holders release (a holder that
\* itself waits in another acquire cannot).
WaiterEventuallyGranted ==
    \A h \in Handles :
        (Busy(h) /\ call[h].timeout = "None")
            ~> \/ h \in owns
               \/ \E n \in DOMAIN ids : Busy(ids[n])

----------------------------------------------------------------------------
(* Properties of gather_from_workers and scatter_to_workers *)

GatherOver == gpc \in {"done", "raised"}

\* a pass ended: the call goes on with another pass, returns or raises
PassEnds == gpc = "await" /\ (gpc' # "await" \/ npass' # npass)

\* a pass ended and the call goes on with another pass
NextPass == gpc = "await" /\ npass' = npass + 1

\* C11: gather_from_workers terminates whatever who_has holds and however
\* the peers fail, as long as every fetch responds or raises; a pass that
\* does not end the call strictly shrinks the pool of addresses that can
\* still be chosen, and the loop never runs on without awaiting.
GatherTerminates ==
    /\ [][/\ NextPass => /\ Pool(who_has', bad_addresses')
                               \subseteq Pool(who_has, bad_addresses)
                          /\ Pool(who_has', bad_addresses')
                               # Pool(who_has, bad_addresses)
          /\ gpc' # "spin"]_vars
    /\ <>GatherOver

\* a call that needed a second pass has returned
SecondPassReturned == gpc = "done" /\ npass >= 2

\* C12: when gather returns, every requested key is in exactly one of the
\* results and the unobtainable map, neither holds a key that was not
\* requested (peers answer only with keys they were asked for), and every
\* candidate address of an unobtainable key was marked bad (a key without
\* candidates included).
ReturnPartitionsKeys ==
    gpc = "done" =>
        /\ gret.results \cup DOMAIN gret.bad_keys = DOMAIN entry
        /\ gret.results \cap DOMAIN gret.bad_keys = {}
        /\ \A k \in DOMAIN gret.bad_keys : entry[k] \subseteq bad_addresses

\* a call returned with one key resolved and another one unobtainable
ReturnedBothKinds ==
    gpc = "done" /\ gret.results # {} /\ DOMAIN gret.bad_keys # {}

\* every key has exactly one candidate and that peer always answers with
\* every key asked of it
AllSingleGood ==
    \A k \in DOMAIN caller :
        Cardinality(caller[k]) = 1 /\ \A a \in caller[k] : beh[a] = "good"

\* C13: when every key has exactly one candidate and every candidate is
\* reachable and answers with every key asked of it, gather returns all
\* keys resolved, an empty unobtainable map and an empty unreachable list.
HealthyGatherResolvesAll ==
    (GatherOver /\ AllSingleGood) =>
        /\ gpc = "done"
        /\ gret.results = DOMAIN entry
        /\ gret.bad_keys = EmptyMap
        /\ gret.missing = {}

\* such a call for two keys held by two peers has returned
HealthyGatherReturned ==
    /\ gpc = "done" /\ AllSingleGood
    /\ \E k1, k2 \in DOMAIN entry : entry[k1] # entry[k2]

\* the only candidate of key k is address a, which raises a connectivity
\* error on every fetch
OnlyCandidateDown(k, a) == caller[k] = {a} /\ beh[a] = "down"

\* C14: a key whose only candidate raises a connectivity error on every
\* fetch is returned in the unobtainable map with its original candidate
\* list, and the address is in the returned unreachable list.
DownCandidateReported ==
    \A k \in DOMAIN caller, a \in Addrs :
        (gpc = "done" /\ OnlyCandidateDown(k, a)) =>
            /\ k \in DOMAIN gret.bad_keys
            /\ gret.bad_keys[k] = {a}
            /\ a \in gret.missing

\* a call returned with such a key, and another key resolved
DownCandidateReturned ==
    /\ gpc = "done" /\ gret.results # {}
    /\ \E k \in DOMAIN caller, a \in Addrs : OnlyCandidateDown(k, a)

\* C15: a connectivity error of a fetch never leaves gather: the pass goes
\* on, the answers of the other addresses of the pass are recorded, and a
\* call that returns accounts for every key as resolved or unobtainable.
ConnectivityErrorAbsorbed ==
    /\ [](gret.err # "env")
    /\ [][(PassEnds /\ Missing(fetch) # {} /\ gpc' # "raised")
            => /\ Response(fetch) \subseteq results'
               /\ Missing(fetch) \subseteq missing_workers']_vars
    /\ [](gpc = "done" =>
             gret.results \cup DOMAIN gret.bad_keys = DOMAIN who_has)

\* in a single pass one address failed and another one answered
ErrorAndAnswerInOnePass ==
    gpc = "done" /\ npass = 1 /\ gret.missing # {} /\ gret.results # {}

\* C16: a connectivity error raised by the update_data of one destination
\* during scatter_to_workers is caught for that address and never leaves
\* the call.
ScatterAbsorbsConnectivityError == sc.err # "env"

\* C17: what gather returns depends only on the who_has it was called with:
\* changes other tasks make to the caller's dict while gather is suspended
\* neither make it fail nor show in the candidate lists it reports for the
\* unobtainable keys.
CallerMapIsolated ==
    /\ gret.err # "KeyError"
    /\ gpc = "done" =>
          \A k \in DOMAIN gret.bad_keys : gret.bad_keys[k] = entry[k]

\* C18: every handle gather opened in a pass is closed before the next pass
\* starts and before gather returns or raises, so the open handles are
\* never more than the addresses asked in the current pass; every handle
\* scatter opened is closed when it returns or raises.
HandlesClosed ==
    /\ gpc \in {"done", "raised"} => rpcs = {}
    /\ gpc = "await" => rpcs \subseteq {<<npass, a>> : a \in DOMAIN fetch}
    /\ Cardinality(rpcs) <= Cardinality(DOMAIN fetch)
    /\ sc.pc \in {"done", "raised"} => sc.rpcs = {}

\* gather awaits the fetches of a second pass with handles open
SecondPassHandlesOpen == gpc = "await" /\ npass >= 2 /\ rpcs # {}

\* a scatter_to_workers call has assigned its items
Assigned == sc'.pc = "await" /\ ncalls' = ncalls + 1

\* C19: scatter assigns item i (from 0) to element (c + i) mod W of the
\* capacity-weighted address sequence, c being the process-wide counter
\* when the call starts and W the length of the sequence, and advances the
\* counter by the number of items, so that the next call goes on where this
\* one stopped.
RoundRobinAssignment ==
    [][Assigned =>
          LET workers == Workers(sc'.nthreads)
              W == Len(workers)
          IN  /\ Len(sc'.L) = sc'.n
              /\ \A i \in 0..(sc'.n - 1) :
                    sc'.L[i + 1] = workers[((counter + i) % W) + 1]
              /\ counter' = counter + sc'.n
              /\ sc.L # <<>> => sc'.start = sc.start + sc.n]_vars

\* a later call started in the middle of the address sequence
RotationContinued ==
    /\ sc.pc = "await" /\ ncalls >= 2
    /\ sc.start % Len(Workers(sc.nthreads)) # 0

\* the sum of the thread counts of the first w workers
RECURSIVE Capacity(_, _)
Capacity(nthreads, w) ==
    IF w = 0 THEN 0 ELSE Capacity(nthreads, w - 1) + nthreads[w]

\* the number of items of L that go to worker w
Received(L, w) == Cardinality({i \in 1..Len(L) : L[i] = w})

Floor(n, W) == n \div W

Ceil(n, W) == (n + W - 1) \div W

\* C20: with n items and W threads in all, a worker with t threads receives
\* at least t * floor(n / W) and at most t * ceil(n / W) items, whatever
\* the counter is; a worker without threads receives none.
CapacityWeightedShare ==
    sc.L # <<>> =>
        LET W == Capacity(sc.nthreads, Len(sc.nthreads))
        IN  \A w \in DOMAIN sc.nthreads :
               /\ sc.nthreads[w] = 0 => Received(sc.L, w) = 0
               /\ W > 0 =>
                     /\ Received(sc.L, w) >= sc.nthreads[w] * Floor(sc.n, W)
                     /\ Received(sc.L, w) <= sc.nthreads[w] * Ceil(sc.n, W)

\* the items do not divide evenly, the call started in the middle of the
\* sequence, one worker has no thread and another one several
UnevenShare ==
    /\ sc.L # <<>>
    /\ sc.n % Len(Workers(sc.nthreads)) # 0
    /\ sc.start % Len(Workers(sc.nthreads)) # 0
    /\ \E w \in DOMAIN sc.nthreads : sc.nthreads[w] = 0
    /\ \E w \in DOMAIN sc.nthreads : sc.nthreads[w] >= 2

\* C21: scatter_to_workers sends every key to exactly one destination,
\* makes one update_data call per destination with all the keys assigned to
\* it, and returns the keys in input order with, for every key, the list
\* holding exactly the address the key was sent to.
ScatterSendsEachKeyOnce ==
    sc.L # <<>> =>
        /\ DOMAIN sc.upd = DOMAIN sc.d
        /\ \A k \in 1..sc.n :
              Cardinality({w \in DOMAIN sc.d : k \in sc.d[w]}) = 1
        /\ \A w \in DOMAIN sc.d : sc.d[w] = {k \in 1..sc.n : sc.L[k] = w}
        /\ sc.pc = "done" =>
              /\ sc.names = [i \in 1..sc.n |-> i]
              /\ DOMAIN sc.who_has = 1..sc.n
              /\ \A k \in 1..sc.n, w \in DOMAIN sc.d :
                    k \in sc.d[w] => sc.who_has[k] = <<w>>

\* a call that sent several keys to each of two destinations has returned
ScatterReturnedTwoDestinations ==
    /\ sc.pc = "done"
    /\ Cardinality(DOMAIN sc.d) >= 2
    /\ \E w \in DOMAIN sc.d : Cardinality(sc.d[w]) >= 2

\* the calls that advanced the counter
Flown == {i \in DOMAIN flight : flight[i].n > 0}

\* the positions of the rotation that call i uses
Span(i) == flight[i].start .. (flight[i].start + flight[i].n - 1)

\* where the first of the calls started
FirstStart ==
    CHOOSE p \in {flight[i].start : i \in Flown} :
        \A j \in Flown : p <= flight[j].start

\* C38: scatter_to_workers calls in flight at once on one loop each read
\* and advance the round-robin counter in one step: a call with n items
\* starts at the counter's value and leaves it n higher, no other step
\* changes it, so the calls use disjoint ranges of the rotation that follow
\* one another up to the counter, also when a call's RPCs fail.
CounterAdvancedAtomically ==
    /\ [](\A i, j \in Flown : i # j => Span(i) \cap Span(j) = {})
    /\ [](Flown # {} =>
            UNION {Span(j) : j \in Flown} = FirstStart .. (counter - 1))
    /\ [][\A i \in DOMAIN flight :
            IF flight[i].pc = "idle" /\ flight'[i].pc = "await"
            THEN /\ flight'[i].start = counter
                 /\ counter' = counter + flight'[i].n
            ELSE (\A j \in DOMAIN flight :
                    ~(flight[j].pc = "idle" /\ flight'[j].pc = "await"))
                      => counter' = counter]_vars

\* a call started while another one was in flight, and its RPCs failed
\* before the other one ended
TwoInFlightOneFailed ==
    /\ flight # <<>>
    /\ flight[1].pc = "await"
    /\ flight[2].pc = "raised" /\ flight[2].err = "env"
    /\ flight[2].start = flight[1].start + flight[1].n
    /\ counter = flight[2].start + flight[2].n

\* the addresses of the pass whose fetch raised a connectivity error
Unreachable == {a \in DOMAIN fetch : fetch[a].kind = "env"}

\* the addresses of the pass that answered without a key asked of them
Omitting ==
    {a \in DOMAIN fetch :
        fetch[a].kind = "ok" /\ fetch[a].data # Asked(rev, a)}

\* C35: within one gather_from_workers call an address that was marked
\* bad, because its fetch raised a connectivity error or it answered
\* without a key asked of it, is sent no fetch in a later pass; the set of
\* bad addresses, the resolved keys and the unobtainable keys only grow.
BadAddressNeverAskedAgain ==
    /\ [](gpc = "await" => DOMAIN fetch \cap bad_addresses = {})
    /\ [][/\ bad_addresses \subseteq bad_addresses'
          /\ results \subseteq results'
          /\ all_bad_keys \subseteq all_bad_keys'
          /\ (PassEnds /\ gpc' # "raised")
                => (Unreachable \cup Omitting) \subseteq bad_addresses']_vars

\* a further pass runs after an address was marked bad
PassAfterBadAddress ==
    gpc = "await" /\ npass >= 2 /\ bad_addresses # {} /\ results # {}

\* C36: the unreachable list that gather_from_workers returns holds
\* exactly the addresses whose fetch raised a connectivity error during
\* the call; each of them is also marked bad, and an address that answered
\* without a key asked of it is marked bad without being listed.
UnreachableListed ==
    /\ [][(PassEnds /\ gpc' # "raised") =>
            /\ missing_workers' = missing_workers \cup Unreachable
            /\ Unreachable \subseteq bad_addresses'
            /\ Omitting \subseteq bad_addresses' \ missing_workers']_vars
    /\ [](gpc = "done" =>
            /\ gret.missing = missing_workers
            /\ gret.missing \subseteq bad_addresses)

\* a call returned after one address was unreachable and another one
\* answered without a key
ReturnedUnreachableAndOmitting ==
    /\ gpc = "done"
    /\ gret.missing # {}
    /\ bad_addresses \ gret.missing # {}

\* key k has a candidate that always answers with every key asked of it
HasGoodCandidate(k) == \E a \in entry[k] : beh[a] = "good"

\* C37: a key with at least one candidate address that always answers
\* with every key asked of it ends up in the resolved map, whatever
\* addresses are chosen and however the other addresses fail, unless a
\* fetch raises an error that gather does not absorb.
GoodCandidateResolves ==
    /\ [](gpc = "done" =>
            \A k \in DOMAIN entry : HasGoodCandidate(k) => k \in gret.results)
    /\ [](gpc # "called" =>
            \A k \in DOMAIN entry : HasGoodCandidate(k) => k \notin all_bad_keys)
    /\ <>(gpc \in {"done", "raised"})

\* a key was resolved by its good candidate after another candidate of it
\* had failed
ResolvedAfterFailure ==
    /\ gpc = "done"
    /\ \E k \in DOMAIN entry :
          /\ HasGoodCandidate(k)
          /\ k \in gret.results
          /\ entry[k] \cap bad_addresses # {}
          /\ \E j \in DOMAIN entry : j \in DOMAIN gret.bad_keys

----------------------------------------------------------------------------
(* Properties of unpack_remotedata and pack_data *)

\* o with every WrappedKey object replaced by f of it, wherever it is
RECURSIVE Replaced(_, _)
Replaced(o, f) ==
    IF o[1] = "ref" THEN f[o]
    ELSE IF o[1] \in {"tuple", "list"}
    THEN <<o[1], [i \in DOMAIN o[2] |-> Replaced(o[2][i], f)]>>
    ELSE IF o[1] \in {"set", "frozenset"}
    THEN <<o[1], {Replaced(x, f) : x \in o[2]}>>
    ELSE IF o[1] = "dict"
    THEN <<o[1], {<<Replaced(kv[1], f), Replaced(kv[2], f)>> : kv \in o[2]}>>
    ELSE o

\* o with every WrappedKey object replaced by its key
WithKeys(o) == Replaced(o, [r \in AllRefs(o) |-> Lit(RefKey(r[2]))])

\* o with every WrappedKey object replaced by the value of its key
WithValues(o) == Replaced(o, [r \in AllRefs(o) |-> Value(RefKey(r[2]))])

\* the WrappedKey objects of o that are, or are inside, the key of a dict
RECURSIVE KeyRefs(_)
KeyRefs(o) ==
    IF o[1] \in {"tuple", "list"}
    THEN UNION {KeyRefs(o[2][i]) : i \in DOMAIN o[2]}
    ELSE IF o[1] \in {"set", "frozenset"}
    THEN UNION {KeyRefs(x) : x \in o[2]}
    ELSE IF o[1] = "dict"
    THEN UNION {AllRefs(kv[1]) \cup KeyRefs(kv[2]) : kv \in o[2]}
    ELSE {}

\* the literal scalars of o that are not inside the key of a dict
RECURSIVE Literals(_)
Literals(o) ==
    IF o[1] = "lit" THEN {o}
    ELSE IF o[1] \in {"tuple", "list"}
    THEN UNION {Literals(o[2][i]) : i \in DOMAIN o[2]}
    ELSE IF o[1] \in {"set", "frozenset"}
    THEN UNION {Literals(x) : x \in o[2]}
    ELSE IF o[1] = "dict"
    THEN UNION {Literals(kv[2]) : kv \in o[2]}
    ELSE {}

\* C22: for a structure x without WrappedKey objects,
\* pack_data(unpack_remotedata(x)[0], {}) = x and the set returned by
\* unpack_remotedata is empty.
PlainRoundTrip ==
    (ppc = "packed" /\ AllRefs(arg) = {} /\ known = EmptyMap) =>
        (packed = arg /\ myset = {})

\* a dict holding a non-empty tuple went through unpack and pack
PlainNestedPacked ==
    /\ ppc = "packed" /\ AllRefs(arg) = {} /\ known = EmptyMap
    /\ arg[1] = "dict"
    /\ \E kv \in arg[2] : kv[2][1] = "tuple" /\ kv[2][2] # <<>>

\* C23 as stated: unpack_remotedata returns exactly the WrappedKey objects
\* of the structure, whatever container holds them and wherever in it, and
\* the structure with every one of them replaced by its key.
UnpackFindsEveryReference ==
    ppc \in {"unpacked", "packed"} =>
        (myset = AllRefs(arg) /\ out = WithKeys(arg))

\* C23 amended: the same for the structures in which no WrappedKey object
\* is, or is inside, the key of a dict.
UnpackFindsReferencesOutsideKeys ==
    (ppc \in {"unpacked", "packed"} /\ KeyRefs(arg) = {}) =>
        (myset = AllRefs(arg) /\ out = WithKeys(arg))

\* two WrappedKey objects were found in a container inside a dict
TwoReferencesFound ==
    /\ ppc = "unpacked" /\ KeyRefs(arg) = {}
    /\ Cardinality(myset) >= 2 /\ arg[1] = "dict"

\* C24 as stated: with known mapping the key of every WrappedKey object of
\* x to its value, pack_data(unpack_remotedata(x)[0], known) is x with
\* every WrappedKey object replaced by its value and all else unchanged.
RoundTripRestoresValues ==
    (ppc = "packed" /\ known = Known(AllRefs(arg))) =>
        packed = WithValues(arg)

\* C24 amended: the same for the structures in which no WrappedKey object
\* is, or is inside, the key of a dict, and no literal outside the dict
\* keys equals the key of a WrappedKey object of the structure.
RoundTripRestoresValuesNoClash ==
    (/\ ppc = "packed" /\ known = Known(AllRefs(arg))
     /\ KeyRefs(arg) = {}
     /\ Literals(arg) \cap DOMAIN known = {}) =>
        packed = WithValues(arg)

\* such a dict, holding a WrappedKey object and a literal, was restored
ValuesRestored ==
    /\ ppc = "packed" /\ known = Known(AllRefs(arg))
    /\ KeyRefs(arg) = {}
    /\ Literals(arg) \cap DOMAIN known = {}
    /\ AllRefs(arg) # {} /\ Literals(arg) # {} /\ arg[1] = "dict"

\* the callable at the head of the tuple unpack_remotedata was called with
HeadIn == arg[2][1][2]

\* the callable at the head of the tuple it returned
HeadOut == out[2][1][2]

\* the arguments the callable was called with
ArgsIn == Tail(arg[2])

\* the keys appended to the free variables of the callable
NewInkeys ==
    SubSeq(HeadOut.inkeys, Len(HeadIn.inkeys) + 1, Len(HeadOut.inkeys))

\* the references that unpacking the subgraph values and the arguments
\* finds
Discovered ==
    UNION ({Unpack(kv[2]).myset : kv \in HeadIn.dsk}
           \cup {Unpack(ArgsIn[i]).myset : i \in DOMAIN ArgsIn})

\* s lists the key of every reference of refs, each reference once
ListsKeysOf(s, refs) ==
    \E p \in [1..Len(s) -> refs] :
        /\ \A r \in refs : \E i \in 1..Len(s) : p[i] = r
        /\ \A i, j \in 1..Len(s) : p[i] = p[j] => i = j
        /\ \A i \in 1..Len(s) : s[i] = Lit(RefKey(p[i][2]))

\* what C39 and its amendment share: every subgraph value is unpacked, the
\* key of every discovered reference is appended to the free variables,
\* the references are added to the collected set, and without a reference
\* the original tuple is returned
SubgraphValuesUnpacked ==
    /\ myset = Discovered
    /\ IF Discovered = {}
       THEN out = arg
       ELSE /\ HeadOut.dsk
                 = {<<kv[1], Unpack(kv[2]).out>> : kv \in HeadIn.dsk}
            /\ HeadOut.outkey = HeadIn.outkey
            /\ HeadOut.name = HeadIn.name
            /\ SubSeq(HeadOut.inkeys, 1, Len(HeadIn.inkeys)) = HeadIn.inkeys
            /\ ListsKeysOf(NewInkeys, Discovered)
            /\ Len(out[2]) = 1 + Len(ArgsIn) + Len(NewInkeys)
            /\ SubSeq(out[2], 2 + Len(ArgsIn), Len(out[2])) = NewInkeys

\* C39 as stated: for a tuple headed by a SubgraphCallable,
\* unpack_remotedata unpacks every subgraph value, appends the key of every
\* discovered reference to the free variables, adds the references to the
\* collected set and leaves the arguments as they are, the keys being
\* passed after them; without a reference the tuple is returned unchanged.
SubgraphArgumentsUntouched ==
    (ppc \in {"unpacked", "packed"} /\ arg[2][1][1] = "SubgraphCallable") =>
        /\ SubgraphValuesUnpacked
        /\ Discovered # {} => SubSeq(out[2], 2, 1 + Len(ArgsIn)) = ArgsIn

\* C39 amended: the same, where the arguments are unpacked like the
\* subgraph values (a reference in them is replaced by its key) and are
\* left as they are when they hold no reference.
SubgraphArgumentsUnpacked ==
    (ppc \in {"unpacked", "packed"} /\ arg[2][1][1] = "SubgraphCallable") =>
        /\ SubgraphValuesUnpacked
        /\ Discovered # {} =>
              /\ SubSeq(out[2], 2, 1 + Len(ArgsIn))
                    = [i \in DOMAIN ArgsIn |-> Unpack(ArgsIn[i]).out]
              /\ \A i \in DOMAIN ArgsIn :
                    AllRefs(ArgsIn[i]) = {} => out[2][i + 1] = ArgsIn[i]

\* a reference of the subgraph and one of the arguments were unpacked
SubgraphAndArgumentHeldReferences ==
    /\ ppc = "unpacked" /\ arg[2] # <<>>
    /\ arg[2][1][1] = "SubgraphCallable"
    /\ Cardinality(myset) >= 2
    /\ \E i \in DOMAIN ArgsIn : ArgsIn[i][1] = "ref"
    /\ \E kv \in HeadIn.dsk : Unpack(kv[2]).myset # {}

----------------------------------------------------------------------------
(* Security: TLS parameters per role *)

Paths(name) == {None, name}

\* the roles a caller may name
RoleNames == Roles \cup {"supervisor"}

get_tls_config_for_role(role) ==
    [ca_file |-> sec.tls_ca_file,
     key     |-> sec.key[role],
     cert    |-> sec.cert[role],
     ciphers |-> sec.tls_ciphers]

SSLContext(tls, purpose) ==
    <<"SSLContext",
      [purpose        |-> purpose,
       verify_mode    |-> "CERT_REQUIRED",
       check_hostname |-> FALSE,
       ca_file        |-> tls.ca_file,
       cert           |-> tls.cert,
       key            |-> tls.key,
       ciphers        |-> tls.ciphers]>>

TlsContextAlways(tls, purpose) == SSLContext(tls, purpose)

\* a context for a role that has a certificate, none otherwise
TlsContext(tls, purpose) ==
    IF tls.cert # None THEN SSLContext(tls, purpose) ELSE NoContext

\* what both calls do for a role, with the purpose of their context
Args(method, role, purpose) ==
    /\ scall' = <<method, role>>
    /\ IF role \in Roles
         THEN /\ bundle' =
                   [ssl_context |->
                        TlsContext(get_tls_config_for_role(role), purpose),
                    require_encryption |-> sec.require_encryption]
              /\ serr' = "none"
         ELSE /\ bundle' = NoBundle
              /\ serr' = "ValueError"
    /\ UNCHANGED sec

get_connection_args(role) == Args("get_connection_args", role, "SERVER_AUTH")

get_listen_args(role) == Args("get_listen_args", role, "CLIENT_AUTH")

\* a Security object built from the configuration and the overrides
SecurityInit ==
    /\ sec \in [require_encryption : BOOLEAN,
                 tls_ca_file : Paths("ca.pem"),
                 tls_ciphers : Paths("ECDHE-RSA-AES128-GCM-SHA256"),
                 cert : [Roles -> Paths("cert.pem")],
                 key : [Roles -> Paths("key.pem")]]
    /\ scall = <<"none", "none">>
    /\ bundle = NoBundle
    /\ serr = "none"

SecurityAlone ==
    SecurityInit /\ GatherOff /\ ScatterOff /\ PackOff /\ NannyOff
    /\ TransportOff /\ FlightOff /\ LockInit

SecurityStep ==
    \/ \E role \in RoleNames : get_connection_args(role) /\ UNCHANGED notSecurity
    \/ \E role \in RoleNames : get_listen_args(role) /\ UNCHANGED notSecurity

SecuritySpec == SecurityAlone /\ [][SecurityStep]_vars

----------------------------------------------------------------------------
(* listen and connect with the arguments a Security object returns *)

\* the bundles get_connection_args (SERVER_AUTH) and get_listen_args
\* (CLIENT_AUTH) can return: with the role's context or with none
Bundles(purpose) ==
    {[ssl_context |-> c, require_encryption |-> e] :
        c \in {NoContext,
               SSLContext([ca_file |-> "ca.pem", key |-> "key.pem",
                           cert |-> "cert.pem", ciphers |-> None], purpose)},
        e \in BOOLEAN}

RefusedNever(t, d) == FALSE

\* encryption is required and the transport gives none
Refused(t, d) == d.require_encryption /\ t = "tcp"

\* a tls endpoint needs a TLS context
LacksContext(t, d) == t = "tls" /\ d.ssl_context = NoContext

Attempt(o, t, d, r) == [op |-> o, transport |-> t, args |-> d, result |-> r]

listen(t, d) ==
    \/ /\ Refused(t, d)
       /\ attempt' = Attempt("listen", t, d, "RuntimeError")
       /\ UNCHANGED listeners
    \/ /\ ~Refused(t, d)
       /\ LacksContext(t, d)
       /\ attempt' = Attempt("listen", t, d, "TypeError")
       /\ UNCHANGED listeners
    \/ /\ ~Refused(t, d)
       /\ attempt' = Attempt("listen", t, d, "ok")
       /\ listeners' = [listeners EXCEPT ![t] = d]

\* a connect to the contact address of the listener on transport t
connect(t, d) ==
    /\ listeners[t] # NoArgs
    /\ attempt' =
          Attempt("connect", t, d,
                  IF Refused(t, d) THEN "RuntimeError"
                  ELSE IF LacksContext(t, d) THEN "TypeError"
                  ELSE "ok")
    /\ UNCHANGED listeners

\* the end of a listener's with block
StopListening(t) ==
    /\ listeners[t] # NoArgs
    /\ listeners' = [listeners EXCEPT ![t] = NoArgs]
    /\ UNCHANGED attempt

TransportAlone ==
    /\ listeners = [t \in Transports |-> NoArgs]
    /\ attempt = NoAttempt
    /\ GatherOff /\ ScatterOff /\ PackOff /\ NannyOff /\ SecurityOff
    /\ FlightOff /\ LockInit

TransportStep ==
    \/ \E t \in Transports, d \in Bundles("CLIENT_AUTH") :
          listen(t, d) /\ UNCHANGED notTransport
    \/ \E t \in Transports, d \in Bundles("SERVER_AUTH") :
          connect(t, d) /\ UNCHANGED notTransport
    \/ \E t \in Transports : StopListening(t) /\ UNCHANGED notTransport

TransportSpec == TransportAlone /\ [][TransportStep]_vars

----------------------------------------------------------------------------
(* Properties of the worker supervisor *)

StatusEdges ==
    {<<"init", "starting">>, <<"starting", "running">>,
     <<"running", "restarting">>, <<"restarting", "starting">>,
     <<"running", "closing">>, <<"starting", "closing">>,
     <<"closing", "closed">>, <<"starting", "failed">>}

\* C26: the status changes only along init -> starting, starting ->
\* running, running -> restarting, restarting -> starting, running ->
\* closing, starting -> closing, closing -> closed and starting -> failed;
\* closed and failed are never left.
StatusFollowsEdges ==
    [][status' # status => <<status, status'>> \in StatusEdges]_vars

\* a supervisor that restarted its worker was closed
ClosedAfterRestart == status = "closed" /\ nlaunch >= 2

\* the worker subprocess exited unexpectedly while the supervisor runs
CrashedNow == status = "running" /\ Dead /\ crashed.pid = pid

\* the supervisor runs again with another subprocess and directory
Recovered ==
    /\ status = "running" /\ ~Dead
    /\ crashed.pid # 0 /\ pid # crashed.pid /\ worker_dir # crashed.dir

\* C27: when the worker subprocess exits unexpectedly while the supervisor
\* is running, the supervisor goes by itself through restarting and is
\* eventually running again with a new subprocess and a new working
\* directory (as long as the scheduler is there and nobody closes it);
\* after close no working directory is left.
CrashRestarts ==
    /\ CrashedNow ~> (Recovered \/ ~sched \/ status \in {"closing", "closed"})
    /\ [][(CrashedNow /\ sched /\ status' # status)
            => status' \in {"restarting", "closing"}]_vars
    /\ [](status = "closed" => dirs = {})

\* a supervisor whose worker crashed runs again
RunningAfterCrash == Recovered /\ registered

\* C28: kill() terminates the subprocess if it is alive and does nothing,
\* without error, if it is dead, also when several kill() calls wait
\* together; instantiate() launches a subprocess only if none is alive;
\* after kill the worker is not alive and not registered, after
\* instantiate it is alive and registered.
KillInstantiateIdempotent ==
    /\ [][(KillCall /\ Dead)
            => (UNCHANGED <<status, pid, live, transition, nlaunch>>
                /\ nerr' = "none")]_vars
    /\ [][(transition = "kill" /\ transition' = "none")
            => (pid' \notin live' /\ ~registered' /\ nerr' = "none")]_vars
    /\ [][(InstantiateCall /\ ~Dead)
            => UNCHANGED <<status, pid, live, transition, nlaunch>>]_vars
    /\ [][nlaunch' # nlaunch => live = {}]_vars
    /\ [][(transition = "instantiate" /\ transition' = "none")
            => (pid' \in live' /\ registered' /\ status' = "running")]_vars

\* two kill() calls wait for a subprocess that has exited
TwoKillsWaiting == transition = "kill" /\ kwait >= 2 /\ Dead

\* C29 as stated: a start() without scheduler contact within death_timeout
\* leaves the supervisor failed, raises a timeout error and leaves no live
\* subprocess.
DeathTimeoutFails ==
    nerr = "TimeoutError" => (status = "failed" /\ live = {})

\* C29 amended: such a start() leaves the supervisor closed, raises a
\* timeout error and leaves no live subprocess.
DeathTimeoutCloses ==
    /\ [](nerr = "TimeoutError" => (status = "closed" /\ live = {}))
    /\ [][(transition = "timeout" /\ transition' = "none")
            => nerr' = "TimeoutError"]_vars

\* a start() timed out
StartTimedOut == nerr = "TimeoutError" /\ nlaunch >= 1

----------------------------------------------------------------------------
(* Properties of Security *)

\* C30: for each of the roles scheduler, worker and client,
\* get_connection_args and get_listen_args return a bundle that carries the
\* profile's require_encryption flag and holds a TLS context exactly when
\* a certificate is configured for the role; a context requires peer
\* verification and has hostname checking disabled.
ArgsFollowProfile ==
    (scall[1] # "none" /\ scall[2] \in Roles) =>
        /\ serr = "none"
        /\ bundle.require_encryption = sec.require_encryption
        /\ (bundle.ssl_context # NoContext) <=> (sec.cert[scall[2]] # None)
        /\ bundle.ssl_context # NoContext =>
              /\ bundle.ssl_context[2].verify_mode = "CERT_REQUIRED"
              /\ bundle.ssl_context[2].check_hostname = FALSE

\* a worker that must encrypt listens with a context, its client has none
WorkerListensWithContext ==
    /\ scall = <<"get_listen_args", "worker">>
    /\ bundle.ssl_context # NoContext
    /\ bundle.require_encryption
    /\ sec.cert["client"] = None

\* C31 as stated: with require_encryption in the arguments a connect or a
\* listen over tcp fails with a runtime error, while over tls or in
\* process it succeeds; without it a tcp connect and listen succeed.
EncryptionRequired ==
    attempt.op # "none" =>
        /\ (attempt.args.require_encryption /\ attempt.transport = "tcp")
              => attempt.result = "RuntimeError"
        /\ (attempt.args.require_encryption /\ attempt.transport # "tcp")
              => attempt.result = "ok"
        /\ (~attempt.args.require_encryption /\ attempt.transport = "tcp")
              => attempt.result = "ok"

\* C31 amended: as stated, where over tls the attempt succeeds if its
\* arguments hold a TLS context.
EncryptionRequiredWithContext ==
    attempt.op # "none" =>
        /\ (attempt.args.require_encryption /\ attempt.transport = "tcp")
              => attempt.result = "RuntimeError"
        /\ (/\ attempt.args.require_encryption
            /\ \/ attempt.transport = "inproc"
               \/ /\ attempt.transport = "tls"
                  /\ attempt.args.ssl_context # NoContext)
              => attempt.result = "ok"
        /\ (~attempt.args.require_encryption /\ attempt.transport = "tcp")
              => attempt.result = "ok"

\* a connect that requires encryption was refused by a tcp listener
TcpConnectRefused ==
    /\ attempt.op = "connect"
    /\ attempt.transport = "tcp"
    /\ attempt.result = "RuntimeError"
    /\ listeners["tcp"] # NoArgs

====
